---- MODULE Spec2Model ----
(***************************************************************************)
(* Verification model of the 2FA code relay bot (RomanSergeev653/2FA_F5).  *)
(*                                                                         *)
(* Twelve specifications share the variables below; those of the bot      *)
(* start on a database file left by earlier runs.                          *)
(*   Spec            - the Delegation Registry: the methods of             *)
(*                     DatabaseManager (database/db_manager.py) called     *)
(*                     directly on the SQLite tables created by            *)
(*                     init_database (database/models.py).                 *)
(*   PermissionsSpec - the aiogram handlers of handlers/permissions.py.    *)
(*   CodesSpec       - the aiogram handlers of handlers/codes.py, each     *)
(*                     await of process_get_code being a step boundary.    *)
(*   RequestsSpec    - the two request handlers of handlers/permissions.py *)
(*                     alone, suspended in their notification awaits.      *)
(*   RateSpec        - check_rate_limit (utils/security.py) called on its  *)
(*                     own under a clock that moves between the calls.     *)
(*   MailSpec        - EmailParser.get_latest_code (utils/email_parser.py) *)
(*                     on a mailbox, one step per call on the IMAP server. *)
(*   SubjectSpec     - EmailParser._extract_codes_from_subject on its own. *)
(*   VaultSpec       - encrypt_password and decrypt_password               *)
(*                     (utils/encryption.py) with the token stored between *)
(*                     them.                                               *)
(*   LoopSpec        - process_get_code and /revoke on the one event loop, *)
(*                     the fetch taken call by call.                       *)
(*   RequestPathsSpec - the handlers of handlers/permissions.py together   *)
(*                     with create_permission_request called directly.     *)
(*   SweepSpec       - check_rate_limit with the limits of RATE_LIMITS at  *)
(*                     clock readings more than the cleanup interval       *)
(*                     apart.                                              *)
(*   AccountsSpec    - the handlers of handlers/registration.py and        *)
(*                     /check_email of handlers/codes.py.                  *)
(*                                                                         *)
(* SQLite is modelled in its normal operation: statements do not fail for  *)
(* I/O or locking reasons.  Foreign keys are declared in the schema but    *)
(* get_connection never issues PRAGMA foreign_keys=ON, so they are not     *)
(* enforced; the only constraints that reject an INSERT are the PRIMARY    *)
(* KEY / UNIQUE ones.  The AUTOINCREMENT id columns are never read by any  *)
(* statement of the program; a table is modelled as the sequence of its    *)
(* rows in insertion order.                                                *)
(***************************************************************************)
EXTENDS Integers, Sequences, FiniteSets, TLC

(* ----------------------------- bounds ---------------------------------- *)
MaxTime == 1          \* the clock of a bot run goes over 0..MaxTime (ticks)
MaxLog == 2           \* rows a run may add to action_logs before logging calls stop
MaxCalls == 1         \* timestamps the rate-limit storage may hold in a bot run
MaxRequests == 2      \* the same, in a run that handles access requests only
MaxClock == 3         \* the clock of the rate limiter alone goes over 0..MaxClock (ticks)
MaxChecks == 4        \* calls of check_rate_limit made on the rate limiter alone
MaxInbox == 3         \* messages in the INBOX of a mailbox a fetch reads
MAX_EMAILS_TO_CHECK == 2  \* config.MAX_EMAILS_TO_CHECK: messages one fetch looks at
MaxPieces == 3        \* digit runs and separators a subject is put together from

(* ------------------------- identities and inputs ----------------------- *)
\* two Telegram accounts; the id is message.from_user.id / callback.from_user.id
Users == {1, 2}
UsernameOf == (1 :> "alice" @@ 2 :> "bob")
EmailOf == (1 :> "alice@gmail.com" @@ 2 :> "bob@yandex.ru")
ProviderOf == (1 :> "gmail" @@ 2 :> "yandex")
\* app passwords, each text the sequence of its characters
PasswordOf == (1 :> <<"p", "w", "1">> @@ 2 :> <<"p", "w", "2">>)

Statuses == {"approved", "denied"}
NULL == -1               \* SQL NULL in a timestamp column
None == 0                \* Python None where an id is expected
NoTime == -1             \* Python None where a number of seconds is expected
NoRow == [telegram_id |-> None]      \* fetchone() found nothing

\* message texts: the argument of a command, or a whole message
NoArg == ""
TargetTexts == {"@alice", "@bob", "nobody", "Alice@Gmail.com"}
MentionTexts == {"@alice", "@bob"}       \* texts matching ^@[\w]+$

VARIABLES
    users,               \* table users
    permissions,         \* table permissions
    action_logs,         \* table action_logs
    now,                 \* wall clock read by datetime.now() / time.time(), in ticks
    ret,                 \* the call or update handled last and its result
    last_response,       \* history: last update_permission / revoke_permission per pair
    rate_limit_storage,  \* utils.security._rate_limit_storage
    last_cleanup,        \* utils.security._last_cleanup
    task,                \* the process_get_code coroutine in flight, if any
    log_start,           \* history: rows action_logs held when the run began
    in_flight,           \* request handlers suspended in the owner's notification
    rate_limit_calls,    \* history: the time and the answer of each check_rate_limit call
    mail_server,         \* the owner's IMAP server: INBOX and the sessions it holds open
    parser,              \* the EmailParser of the fetch under way and where it stands
    vault,               \* a password on its way through utils.encryption
    fsm_state            \* the FSM storage: the state each chat is in

dbVars == <<users, permissions, action_logs>>
rateVars == <<rate_limit_storage, last_cleanup, rate_limit_calls>>
mailVars == <<mail_server, parser, vault, fsm_state>>
botVars == <<rateVars, task, log_start, in_flight, mailVars>>
vars == <<users, permissions, action_logs, now, ret, last_response,
          rate_limit_storage, last_cleanup, task, log_start, in_flight,
          rate_limit_calls, mail_server, parser, vault, fsm_state>>

Pairs == Users \X Users
\* the (owner, requester) arguments the registry is called with
CallPairs == {p \in Pairs : p[1] # p[2]}

(* --------------------------- SQL helpers ------------------------------- *)
\* indices of the rows of permissions with the given owner and requester
MatchingRows(table, o, r) ==
    {i \in DOMAIN table : table[i].owner_id = o /\ table[i].requester_id = r}

RECURSIVE DeleteRows(_, _)
\* DELETE FROM table WHERE <row index in del>
DeleteRows(table, del) ==
    IF table = <<>> THEN <<>>
    ELSE LET n == Len(table)
             rest == DeleteRows(SubSeq(table, 1, n - 1), del)
         IN IF n \in del THEN rest ELSE Append(rest, table[n])

\* the three tables as one value
DB == [users |-> users, permissions |-> permissions, action_logs |-> action_logs]

\* mutant: the table is created without UNIQUE(owner_id, requester_id)
PermissionsUnique_dropped(table, o, r) == TRUE

\* UNIQUE(owner_id, requester_id) of CREATE TABLE permissions
PermissionsUnique(table, o, r) == MatchingRows(table, o, r) = {}

Ret(op, a, b, s, res) == [op |-> op, a |-> a, b |-> b, s |-> s, res |-> res]

LogRoom == Len(action_logs) - log_start < MaxLog

(* ----------------------- DatabaseManager methods ----------------------- *)
\* Each method is a function of the database (and the clock); it yields the
\* database after the call and the value returned.

\* INSERT INTO action_logs (user_id, action_type, details, timestamp)
log_action(db, user_id, action_type, details, t) ==
    [db EXCEPT !.action_logs =
        Append(@, [user_id |-> user_id, action_type |-> action_type,
                   details |-> details, timestamp |-> t])]

\* SELECT * FROM users WHERE telegram_id = ?  (fetchone, or None)
get_user_by_telegram_id(db, telegram_id) ==
    LET hit == {i \in DOMAIN db.users : db.users[i].telegram_id = telegram_id}
    IN IF hit = {} THEN NoRow ELSE db.users[CHOOSE i \in hit : \A j \in hit : i <= j]

\* SELECT * FROM users WHERE username = ?  (the caller's '@' already stripped)
get_user_by_username(db, username) ==
    LET hit == {i \in DOMAIN db.users : db.users[i].username = username}
    IN IF hit = {} THEN NoRow ELSE db.users[CHOOSE i \in hit : \A j \in hit : i <= j]

\* UPDATE users SET last_code_request = ? WHERE telegram_id = ?
update_last_code_request(db, telegram_id, t) ==
    [db EXCEPT !.users =
        [i \in DOMAIN @ |-> IF @[i].telegram_id = telegram_id
                            THEN [@[i] EXCEPT !.last_code_request = t]
                            ELSE @[i]]]

\* mutant: INSERT OR REPLACE, a repeated request overwrites the row and is logged
create_permission_request_replace(db, o, r, t) ==
    [db |-> log_action(
              [db EXCEPT !.permissions =
                  Append(DeleteRows(@, MatchingRows(@, o, r)),
                         [owner_id |-> o, requester_id |-> r,
                          status |-> "pending", requested_at |-> t,
                          responded_at |-> NULL])],
              r, "permission_request", <<"Requested access to user", o>>, t),
     result |-> TRUE]

\* INSERT 'pending' row; IntegrityError (UNIQUE) -> False, otherwise log and True
create_permission_request(db, o, r, t) ==
    IF PermissionsUnique(db.permissions, o, r)
    THEN [db |-> log_action(
                   [db EXCEPT !.permissions =
                       Append(@, [owner_id |-> o, requester_id |-> r,
                                  status |-> "pending", requested_at |-> t,
                                  responded_at |-> NULL])],
                   r, "permission_request", <<"Requested access to user", o>>, t),
          result |-> TRUE]
    ELSE [db |-> db, result |-> FALSE]

\* mutant: an upsert, the response creates the row when the pair has none
update_permission_upsert(db, o, r, new_status, t) ==
    [db |-> log_action(
              [db EXCEPT !.permissions =
                  Append(DeleteRows(@, MatchingRows(@, o, r)),
                         [owner_id |-> o, requester_id |-> r, status |-> new_status,
                          requested_at |-> t, responded_at |-> t])],
              o, "permission_response", <<new_status, r>>, t),
     result |-> TRUE]

\* UPDATE ... SET status, responded_at WHERE owner_id = ? AND requester_id = ?;
\* then log and True, whatever the number of rows matched
update_permission(db, o, r, new_status, t) ==
    [db |-> log_action(
              [db EXCEPT !.permissions =
                  [i \in DOMAIN @ |->
                      IF i \in MatchingRows(@, o, r)
                      THEN [@[i] EXCEPT !.status = new_status, !.responded_at = t]
                      ELSE @[i]]],
              o, "permission_response", <<new_status, r>>, t),
     result |-> TRUE]

\* mutant: the SELECT lacks AND status = 'approved'
check_permission_any_status(db, o, r) == MatchingRows(db.permissions, o, r) # {}

\* SELECT status ... WHERE owner_id = ? AND requester_id = ? AND status = 'approved';
\* result is not None
check_permission(db, o, r) ==
    \E i \in MatchingRows(db.permissions, o, r) : db.permissions[i].status = "approved"

\* mutant: the DELETE is restricted to approved rows
revoke_permission_approved_only(db, o, r, t) ==
    [db |-> log_action(
              [db EXCEPT !.permissions =
                  DeleteRows(@, {i \in MatchingRows(@, o, r) : @[i].status = "approved"})],
              o, "permission_revoked", <<"Revoked access from user", r>>, t),
     result |-> TRUE]

\* mutant: success is reported only when the DELETE removed a row
revoke_permission_rowcount(db, o, r, t) ==
    [db |-> log_action(
              [db EXCEPT !.permissions = DeleteRows(@, MatchingRows(@, o, r))],
              o, "permission_revoked", <<"Revoked access from user", r>>, t),
     result |-> MatchingRows(db.permissions, o, r) # {}]

\* DELETE ... WHERE owner_id = ? AND requester_id = ?; then log and True
revoke_permission(db, o, r, t) ==
    [db |-> log_action(
              [db EXCEPT !.permissions = DeleteRows(@, MatchingRows(@, o, r))],
              o, "permission_revoked", <<"Revoked access from user", r>>, t),
     result |-> TRUE]

\* the attributes class DatabaseManager defines; db.<anything else> raises
\* AttributeError at the call site
DatabaseManagerMethods ==
    {"add_user", "get_user_by_telegram_id", "get_user_by_username",
     "update_last_code_request", "create_permission_request",
     "update_permission", "check_permission", "get_my_permissions",
     "revoke_permission", "log_action"}

SetDB(db) ==
    /\ users' = db.users
    /\ permissions' = db.permissions
    /\ action_logs' = db.action_logs

(* ------------------------- utils.encryption ---------------------------- *)
(* A text is a sequence of characters and a byte string a sequence of      *)
(* numbers.  Fernet is modelled symbolically: AES-CBC yields the padded    *)
(* data back only under the key and iv it was made with, an HMAC is equal  *)
(* to another only when key and signed fields are.                         *)
FernetKey == "sha256(ENCRYPTION_KEY)"

\* str.encode('utf-8') of each character used here
Utf8 ==
    ("p" :> <<112>> @@ "q" :> <<113>> @@ "w" :> <<119>> @@ "1" :> <<49>>
       @@ "2" :> <<50>> @@ " " :> <<32>> @@ "e-acute" :> <<195, 169>>
       @@ "euro" :> <<226, 130, 172>>)

RECURSIVE encode_utf8(_)
encode_utf8(text) ==
    IF text = <<>> THEN <<>> ELSE Utf8[Head(text)] \o encode_utf8(Tail(text))

\* a decoder that accepts 7-bit bytes only
RECURSIVE decode_ascii(_)
decode_ascii(bytes) ==
    IF bytes = <<>> THEN [ok |-> TRUE, password |-> <<>>]
    ELSE LET fits == {c \in DOMAIN Utf8 : Utf8[c] = <<Head(bytes)>>}
         IN IF fits = {} THEN [ok |-> FALSE, password |-> <<>>]
            ELSE LET rest == decode_ascii(Tail(bytes))
                 IN [ok |-> rest.ok,
                     password |-> IF rest.ok
                                  THEN <<CHOOSE c \in fits : TRUE>> \o rest.password
                                  ELSE <<>>]

\* bytes.decode('utf-8'): UnicodeDecodeError when no character starts here
RECURSIVE decode_utf8(_)
decode_utf8(bytes) ==
    IF bytes = <<>> THEN [ok |-> TRUE, password |-> <<>>]
    ELSE LET fits == {c \in DOMAIN Utf8 :
                         /\ Len(Utf8[c]) <= Len(bytes)
                         /\ SubSeq(bytes, 1, Len(Utf8[c])) = Utf8[c]}
         IN IF fits = {} THEN [ok |-> FALSE, password |-> <<>>]
            ELSE LET c == CHOOSE x \in fits : TRUE
                     rest == decode_utf8(SubSeq(bytes, Len(Utf8[c]) + 1, Len(bytes)))
                 IN [ok |-> rest.ok,
                     password |-> IF rest.ok THEN <<c>> \o rest.password ELSE <<>>]

\* Fernet(key).encrypt(data) at current_time with the random iv: the token
\* 0x80 | timestamp | iv | AES-CBC(data) | HMAC over all of these, in base64
Fernet_encrypt(key, data, current_time, iv) ==
    LET ciphertext == [key |-> key, iv |-> iv, data |-> data]
    IN [armor |-> "base64", complete |-> TRUE, version |-> 128,
        timestamp |-> current_time, iv |-> iv, ciphertext |-> ciphertext,
        hmac |-> [key |-> key, version |-> 128, timestamp |-> current_time,
                  iv |-> iv, ciphertext |-> ciphertext]]

\* a variant that decrypts without verifying the HMAC
Fernet_decrypt_unverified(key, token) ==
    IF token.armor # "base64" \/ ~token.complete \/ token.version # 128
    THEN [ok |-> FALSE, data |-> <<>>]
    ELSE IF token.ciphertext.key = key /\ token.ciphertext.iv = token.iv
         THEN [ok |-> TRUE, data |-> token.ciphertext.data]
         ELSE [ok |-> TRUE,
                    data |-> <<113>> \o SubSeq(token.ciphertext.data, 2,
                                               Len(token.ciphertext.data))]

\* Fernet(key).decrypt(token), no ttl: InvalidToken unless the token is
\* well-formed base64 of full length, starts with 0x80 and carries the HMAC
\* of its own fields under key
Fernet_decrypt(key, token) ==
    IF token.armor # "base64" \/ ~token.complete \/ token.version # 128
    THEN [ok |-> FALSE, data |-> <<>>]
    ELSE IF token.hmac # [key |-> key, version |-> token.version,
                          timestamp |-> token.timestamp, iv |-> token.iv,
                          ciphertext |-> token.ciphertext]
         THEN [ok |-> FALSE, data |-> <<>>]
         ELSE IF token.ciphertext.key = key /\ token.ciphertext.iv = token.iv
              THEN [ok |-> TRUE, data |-> token.ciphertext.data]
              ELSE [ok |-> TRUE,
                    data |-> <<113>> \o SubSeq(token.ciphertext.data, 2,
                                               Len(token.ciphertext.data))]

\* encryptor.encrypt(password); the token is ASCII, so its decode('utf-8')
\* yields the same characters
encrypt_password(password, current_time, iv) ==
    Fernet_encrypt(FernetKey, encode_utf8(password), current_time, iv)

\* encryptor.decrypt(encrypted_password): any exception is re-raised
decrypt_password(token) ==
    LET decrypted == Fernet_decrypt(FernetKey, token)
    IN IF ~decrypted.ok THEN [ok |-> FALSE, password |-> <<>>]
       ELSE decode_utf8(decrypted.data)

(* ------------------------- persisted database -------------------------- *)
\* INSERT INTO users; IntegrityError (PRIMARY KEY, UNIQUE username) -> False
add_user(db, telegram_id, username, email, encrypted_password, email_provider, t) ==
    IF \E i \in DOMAIN db.users :
          db.users[i].telegram_id = telegram_id \/ db.users[i].username = username
    THEN [db |-> db, result |-> FALSE]
    ELSE [db |-> log_action(
                   [db EXCEPT !.users =
                       Append(@, [telegram_id |-> telegram_id, username |-> username,
                                  email |-> email,
                                  encrypted_password |-> encrypted_password,
                                  email_provider |-> email_provider,
                                  registered_at |-> t, last_code_request |-> NULL])],
                   telegram_id, "registration", <<"Registered with email", email>>, t),
          result |-> TRUE]

EmptyDB == [users |-> <<>>, permissions |-> <<>>, action_logs |-> <<>>]

Registered(db, u) ==
    add_user(db, u, UsernameOf[u], EmailOf[u], encrypt_password(PasswordOf[u], 0, 0),
             ProviderOf[u], 0).db

\* an account whose password was stored while ENCRYPTION_KEY had another value
RegisteredUnder(db, u, key) ==
    add_user(db, u, UsernameOf[u], EmailOf[u],
             Fernet_encrypt(key, encode_utf8(PasswordOf[u]), 0, 0), ProviderOf[u], 0).db

\* the database files a run may find at start: a new one, or one with
\* accounts registered earlier and at most one permission row left by
\* earlier registry calls
PersistedDBs ==
    LET both == Registered(Registered(EmptyDB, 1), 2)
        asked(p) == create_permission_request(both, p[1], p[2], 0).db
    IN {EmptyDB, Registered(EmptyDB, 1), both}
       \cup {asked(p) : p \in CallPairs}
       \cup {update_permission(asked(p), p[1], p[2], st, 0).db :
                p \in CallPairs, st \in Statuses}

\* a database file in which the owner of an approved record registered before
\* ENCRYPTION_KEY was changed
RekeyedDB ==
    LET rekeyed == Registered(RegisteredUnder(EmptyDB, 1, "sha256(earlier ENCRYPTION_KEY)"), 2)
    IN update_permission(create_permission_request(rekeyed, 1, 2, 0).db,
                         1, 2, "approved", 0).db

\* last_response of a persisted database: what its log says
ResponsesIn(db) ==
    [p \in Pairs |->
        IF \E i \in DOMAIN db.permissions :
              /\ db.permissions[i].owner_id = p[1]
              /\ db.permissions[i].requester_id = p[2]
              /\ db.permissions[i].status \in Statuses
        THEN LET i == CHOOSE i \in DOMAIN db.permissions :
                         /\ db.permissions[i].owner_id = p[1]
                         /\ db.permissions[i].requester_id = p[2]
             IN db.permissions[i].status
        ELSE "none"]

IdleTask ==
    [pc |-> "idle", entry |-> "", requester |-> NoRow, target |-> "",
     owner |-> NoRow, has_permission |-> FALSE, decrypted |-> FALSE,
     sessions |-> 0, code |-> "", notified |-> FALSE, outcome |-> ""]

\* no fetch under way: no mailbox in reach, no parser, nothing being encrypted
\* the FSM storage at start: no chat is in a state
NoState == [u \in Users |-> "none"]

IdleParser == [pc |-> "idle"]

MailIdle ==
    /\ mail_server = [inbox |-> <<>>, sessions |-> 0]
    /\ parser = IdleParser
    /\ vault = [pc |-> "idle"]
    /\ fsm_state = NoState

\* the tables and the history variables of a run that starts on db
StartOn(db) ==
    /\ users = db.users
    /\ permissions = db.permissions
    /\ action_logs = db.action_logs
    /\ last_response = ResponsesIn(db)
    /\ log_start = Len(db.action_logs)

(* ------------------------ registry specification ----------------------- *)
Init ==
    /\ \E db \in PersistedDBs : StartOn(db)
    /\ now = 0
    /\ ret = Ret("init", 0, 0, "", FALSE)
    /\ rate_limit_storage = <<>>
    /\ last_cleanup = 0
    /\ rate_limit_calls = <<>>
    /\ task = IdleTask
    /\ in_flight = [p \in CallPairs |-> 0]
    /\ MailIdle

create_permission_request_call(o, r) ==
    LET c == create_permission_request(DB, o, r, now) IN
    /\ c.result => LogRoom
    /\ SetDB(c.db)
    /\ ret' = Ret("create_permission_request", o, r, "", c.result)
    /\ UNCHANGED <<now, last_response, botVars>>

update_permission_call(o, r, s) ==
    LET c == update_permission(DB, o, r, s, now) IN
    /\ LogRoom
    /\ SetDB(c.db)
    /\ ret' = Ret("update_permission", o, r, s, c.result)
    /\ last_response' = [last_response EXCEPT ![<<o, r>>] = IF c.result THEN s ELSE @]
    /\ UNCHANGED <<now, botVars>>

check_permission_call(o, r) ==
    /\ ret' = Ret("check_permission", o, r, "", check_permission(DB, o, r))
    /\ UNCHANGED <<dbVars, now, last_response, botVars>>

revoke_permission_call(o, r) ==
    LET c == revoke_permission(DB, o, r, now) IN
    /\ LogRoom
    /\ SetDB(c.db)
    /\ ret' = Ret("revoke_permission", o, r, "", c.result)
    /\ last_response' = [last_response EXCEPT ![<<o, r>>] = "revoked"]
    /\ UNCHANGED <<now, botVars>>

Request == \E p \in CallPairs : create_permission_request_call(p[1], p[2])
Respond == \E p \in CallPairs, s \in Statuses : update_permission_call(p[1], p[2], s)
Check == \E p \in CallPairs : check_permission_call(p[1], p[2])
Revoke == \E p \in CallPairs : revoke_permission_call(p[1], p[2])

\* time passes between two calls
Tick ==
    /\ now < MaxTime
    /\ now' = now + 1
    /\ UNCHANGED <<dbVars, ret, last_response, botVars>>

Next == Request \/ Respond \/ Check \/ Revoke \/ Tick

Spec == Init /\ [][Next]_vars

(* ============================ the bot ================================== *)
(* ------------------------- utils.security ------------------------------ *)
\* time.time() is a float: the clock tells Hz readings a second apart, and
\* a whole number of seconds is Hz ticks
Hz == 2
Seconds(n) == n * Hz
rate_limit_cleanup_interval == 3600
RATE_LIMITS ==
    [get_code |-> <<5, 60>>, register |-> <<3, 300>>, request_access |-> <<10, 60>>,
     check_email |-> <<3, 60>>, my_code |-> <<5, 60>>, default |-> <<20, 60>>]

\* [req_time for req_time in requests if req_time > cutoff_time]
Newer(requests, cutoff_time) ==
    LET keep(x) == x > cutoff_time IN SelectSeq(requests, keep)

MinOf(requests) == CHOOSE x \in {requests[i] : i \in DOMAIN requests} :
                      \A j \in DOMAIN requests : x <= requests[j]

\* _rate_limit_storage[user_id][action] of the nested defaultdict
StoredRequests(storage, user_id, action) ==
    IF user_id \in DOMAIN storage /\ action \in DOMAIN storage[user_id]
    THEN storage[user_id][action] ELSE <<>>

\* the storage once _rate_limit_storage[user_id][action] holds requests
StoreRequests(storage, user_id, action, requests) ==
    LET old == IF user_id \in DOMAIN storage THEN storage[user_id] ELSE <<>>
        new == [a \in DOMAIN old \cup {action} |-> IF a = action THEN requests ELSE old[a]]
    IN [u \in DOMAIN storage \cup {user_id} |-> IF u = user_id THEN new ELSE storage[u]]

\* a sweep that drops every timestamp up to the present one
cleanup_rate_limit_storage_to_now(storage, current_time) ==
    LET cutoff_time == current_time
        pruned(u) == [a \in DOMAIN storage[u] |-> Newer(storage[u][a], cutoff_time)]
        kept(u) == {a \in DOMAIN storage[u] : pruned(u)[a] # <<>>}
        left == {u \in DOMAIN storage : kept(u) # {}}
    IN [u \in left |-> [a \in kept(u) |-> pruned(u)[a]]]

\* _cleanup_rate_limit_storage: timestamps older than an hour are dropped,
\* then the actions and the users left without any
cleanup_rate_limit_storage(storage, current_time) ==
    LET cutoff_time == current_time - Seconds(3600)
        pruned(u) == [a \in DOMAIN storage[u] |-> Newer(storage[u][a], cutoff_time)]
        kept(u) == {a \in DOMAIN storage[u] : pruned(u)[a] # <<>>}
        left == {u \in DOMAIN storage : kept(u) # {}}
    IN [u \in left |-> [a \in kept(u) |-> pruned(u)[a]]]

\* int(x) of a float x given in ticks: the whole seconds, truncated towards 0
int(ticks) == IF ticks >= 0 THEN ticks \div Hz ELSE -((-ticks) \div Hz)

\* mutant: a timestamp of exactly now - time_window is kept
check_rate_limit_inclusive(storage, last, user_id, action, max_requests, time_window, current_time) ==
    LET sweep == current_time - last > Seconds(rate_limit_cleanup_interval)
        swept == IF sweep THEN cleanup_rate_limit_storage(storage, current_time) ELSE storage
        cutoff_time == current_time - Seconds(time_window)
        stored == StoredRequests(swept, user_id, action)
        requests == LET keep(x) == x >= cutoff_time IN SelectSeq(stored, keep)
        unlock_time == MinOf(requests) + Seconds(time_window)
        remaining == int(unlock_time - current_time)
    IN IF Len(requests) >= max_requests
       THEN [storage |-> StoreRequests(swept, user_id, action, requests),
             last_cleanup |-> IF sweep THEN current_time ELSE last,
             allowed |-> FALSE,
             remaining |-> IF remaining > 0 THEN remaining ELSE 0]
       ELSE [storage |-> StoreRequests(swept, user_id, action, Append(requests, current_time)),
             last_cleanup |-> IF sweep THEN current_time ELSE last,
             allowed |-> TRUE,
             remaining |-> NoTime]

\* mutant: a bucket that is emptied once its first timestamp is time_window old
check_rate_limit_bucket(storage, last, user_id, action, max_requests, time_window, current_time) ==
    LET sweep == current_time - last > Seconds(rate_limit_cleanup_interval)
        swept == IF sweep THEN cleanup_rate_limit_storage(storage, current_time) ELSE storage
        cutoff_time == current_time - Seconds(time_window)
        stored == StoredRequests(swept, user_id, action)
        requests == IF stored # <<>> /\ MinOf(stored) > cutoff_time THEN stored ELSE <<>>
        unlock_time == MinOf(requests) + Seconds(time_window)
        remaining == int(unlock_time - current_time)
    IN IF Len(requests) >= max_requests
       THEN [storage |-> StoreRequests(swept, user_id, action, requests),
             last_cleanup |-> IF sweep THEN current_time ELSE last,
             allowed |-> FALSE,
             remaining |-> IF remaining > 0 THEN remaining ELSE 0]
       ELSE [storage |-> StoreRequests(swept, user_id, action, Append(requests, current_time)),
             last_cleanup |-> IF sweep THEN current_time ELSE last,
             allowed |-> TRUE,
             remaining |-> NoTime]

\* mutant: a denied call is recorded as well
check_rate_limit_record_denied(storage, last, user_id, action, max_requests, time_window, current_time) ==
    LET sweep == current_time - last > Seconds(rate_limit_cleanup_interval)
        swept == IF sweep THEN cleanup_rate_limit_storage(storage, current_time) ELSE storage
        cutoff_time == current_time - Seconds(time_window)
        stored == StoredRequests(swept, user_id, action)
        requests == Newer(stored, cutoff_time)
        unlock_time == MinOf(requests) + Seconds(time_window)
        remaining == int(unlock_time - current_time)
    IN IF Len(requests) >= max_requests
       THEN [storage |-> StoreRequests(swept, user_id, action, Append(requests, current_time)),
             last_cleanup |-> IF sweep THEN current_time ELSE last,
             allowed |-> FALSE,
             remaining |-> IF remaining > 0 THEN remaining ELSE 0]
       ELSE [storage |-> StoreRequests(swept, user_id, action, Append(requests, current_time)),
             last_cleanup |-> IF sweep THEN current_time ELSE last,
             allowed |-> TRUE,
             remaining |-> NoTime]

\* the storage and _last_cleanup after the call, and the pair it returns
check_rate_limit(storage, last, user_id, action, max_requests, time_window, current_time) ==
    LET sweep == current_time - last > Seconds(rate_limit_cleanup_interval)
        swept == IF sweep THEN cleanup_rate_limit_storage(storage, current_time) ELSE storage
        cutoff_time == current_time - Seconds(time_window)
        requests == Newer(StoredRequests(swept, user_id, action), cutoff_time)
        unlock_time == MinOf(requests) + Seconds(time_window)
        remaining == int(unlock_time - current_time)
    IN IF Len(requests) >= max_requests
       THEN [storage |-> StoreRequests(swept, user_id, action, requests),
             last_cleanup |-> IF sweep THEN current_time ELSE last,
             allowed |-> FALSE,
             remaining |-> IF remaining > 0 THEN remaining ELSE 0]
       ELSE [storage |-> StoreRequests(swept, user_id, action, Append(requests, current_time)),
             last_cleanup |-> IF sweep THEN current_time ELSE last,
             allowed |-> TRUE,
             remaining |-> NoTime]

\* a part of callback_data.split('_'): a run of decimal digits, or other text
Num(n) == [isdigit |-> TRUE, int |-> n, text |-> ""]
Word(w) == [isdigit |-> FALSE, int |-> 0, text |-> w]

\* callback_data.startswith(prefix), both given by their parts; a prefix such
\* as "get_code_" ends with '_' and is given as <<Word("get"), Word("code")>>
StartsWith(data, prefix) ==
    /\ Len(data) > Len(prefix)
    /\ \A i \in DOMAIN prefix : data[i] = prefix[i]

\* TLC integers are below 2**63, so the test user_id > 2**63 is false of
\* every id the model can hold
validate_callback_data(data, expected_prefix) ==
    IF ~StartsWith(data, expected_prefix) THEN None
    ELSE IF Len(data) < 3 THEN None
    ELSE LET id_str == data[Len(data)] IN
         IF ~id_str.isdigit THEN None
         ELSE IF id_str.int <= 0 THEN None
         ELSE id_str.int

\* text.lstrip('@') on the texts of the model
lstrip_at(text) ==
    CASE text = "@alice" -> "alice"
      [] text = "@bob" -> "bob"
      [] OTHER -> text

\* str.lower() on the texts of the model
lower(text) == IF text = "Alice@Gmail.com" THEN "alice@gmail.com" ELSE text

\* validate_email: the texts of the model its regular expression accepts
is_email(text) == text \in {"alice@gmail.com", "bob@yandex.ru", "Alice@Gmail.com"}

(* ----------------------------- handlers -------------------------------- *)
HasMethod(name) == name \in DatabaseManagerMethods

RECURSIVE SumLen(_, _)
SumLen(f, keys) ==
    IF keys = {} THEN 0
    ELSE LET k == CHOOSE x \in keys : TRUE IN Len(f[k]) + SumLen(f, keys \ {k})

RECURSIVE Stamps(_, _)
Stamps(storage, us) ==
    IF us = {} THEN 0
    ELSE LET u == CHOOSE x \in us : TRUE
         IN SumLen(storage[u], DOMAIN storage[u]) + Stamps(storage, us \ {u})

RateRoom == Stamps(rate_limit_storage, DOMAIN rate_limit_storage) < MaxCalls
RequestsRoom == Stamps(rate_limit_storage, DOMAIN rate_limit_storage) < MaxRequests

Reply(op, caller, other, res) == ret' = Ret(op, caller, other, "", res)

\* the module state after a call of check_rate_limit that returned rl
SetRate(rl, user_id, action) ==
    /\ rate_limit_storage' = rl.storage
    /\ last_cleanup' = rl.last_cleanup
    /\ rate_limit_calls' =
          StoreRequests(rate_limit_calls, user_id, action,
                        Append(StoredRequests(rate_limit_calls, user_id, action),
                               [time |-> now, allowed |-> rl.allowed]))

TaskFree == task.pc \in {"idle", "done"}

\* a variant that recognises the requester by email only
IsSelf_by_email(requester, target_input) ==
    /\ is_email(target_input)
    /\ requester.email # ""
    /\ lower(target_input) = lower(requester.email)

\* the target names the requester itself (codes.py 80-99, permissions.py 147-158)
IsSelf(requester, target_input) ==
    IF is_email(target_input)
    THEN requester.email # "" /\ lower(target_input) = lower(requester.email)
    ELSE requester.username # "" /\ target_input = requester.username

\* /request_access [@username | email]
\* /request_access [@username | email], up to the end of its database work
cmd_request_access_insert(u, arg, room) ==
    LET lim == RATE_LIMITS.request_access
        rl == check_rate_limit(rate_limit_storage, last_cleanup, u, "request_access",
                               lim[1], lim[2], now)
        requester == get_user_by_telegram_id(DB, u)
        target_input == lstrip_at(arg)
        owner == get_user_by_username(DB, target_input)
        c == create_permission_request(DB, owner.telegram_id, u, now)
        op == "cmd_request_access"
    IN
    /\ room
    /\ SetRate(rl, u, "request_access")
    /\ UNCHANGED <<log_start, mailVars, now, last_response, task>>
    /\ IF ~rl.allowed THEN Reply(op, u, 0, "RateLimited") /\ UNCHANGED dbVars
       ELSE IF requester = NoRow THEN Reply(op, u, 0, "NotRegistered") /\ UNCHANGED dbVars
       ELSE IF arg = NoArg
            THEN \* the user list is read through db.get_connection()
                 /\ Reply(op, u, 0, IF HasMethod("get_connection") THEN "UserList" ELSE "Error")
                 /\ UNCHANGED dbVars
       ELSE IF IsSelf(requester, target_input)
            THEN Reply(op, u, u, "SelfReference") /\ UNCHANGED dbVars
       ELSE IF is_email(target_input) /\ ~HasMethod("get_user_by_email")
            THEN Reply(op, u, 0, "AttributeError") /\ UNCHANGED dbVars
       ELSE IF owner = NoRow THEN Reply(op, u, 0, "NotFound") /\ UNCHANGED dbVars
       ELSE IF check_permission(DB, owner.telegram_id, u)
            THEN Reply(op, u, owner.telegram_id, "AlreadyApproved") /\ UNCHANGED dbVars
       ELSE IF ~c.result
            THEN Reply(op, u, owner.telegram_id, "AlreadyRequested") /\ UNCHANGED dbVars
       ELSE /\ LogRoom
            /\ SetDB(c.db)
            /\ Reply(op, u, owner.telegram_id, "Requested")

\* on success the handler goes on to await send_message to the owner
Suspend(u) ==
    in_flight' = IF ret'.res = "Requested"
                 THEN [in_flight EXCEPT ![<<ret'.b, u>>] = @ + 1]
                 ELSE in_flight

\* the handler run to its end: the notification it sends changes no state
cmd_request_access(u, arg) ==
    cmd_request_access_insert(u, arg, RateRoom) /\ UNCHANGED in_flight

\* the handler left suspended in its notification awaits
cmd_request_access_suspended(u, arg) ==
    cmd_request_access_insert(u, arg, RequestsRoom) /\ Suspend(u)

\* button request_access_<id>, up to the end of its database work
callback_request_access_insert(u, data, room) ==
    LET lim == RATE_LIMITS.request_access
        rl == check_rate_limit(rate_limit_storage, last_cleanup, u, "request_access",
                               lim[1], lim[2], now)
        requester == get_user_by_telegram_id(DB, u)
        owner_id == validate_callback_data(data, <<Word("request"), Word("access")>>)
        owner == get_user_by_telegram_id(DB, owner_id)
        c == create_permission_request(DB, owner_id, u, now)
        op == "callback_request_access"
    IN
    /\ UNCHANGED <<log_start, mailVars, now, last_response, task>>
    /\ IF requester = NoRow
       THEN Reply(op, u, 0, "NotRegistered") /\ UNCHANGED <<dbVars, rateVars>>
       ELSE IF owner_id = None
       THEN Reply(op, u, 0, "Invalid") /\ UNCHANGED <<dbVars, rateVars>>
       ELSE IF owner = NoRow
       THEN Reply(op, u, 0, "NotFound") /\ UNCHANGED <<dbVars, rateVars>>
       ELSE IF owner_id = u
       THEN Reply(op, u, u, "SelfReference") /\ UNCHANGED <<dbVars, rateVars>>
       ELSE /\ room
            /\ SetRate(rl, u, "request_access")
            /\ IF ~rl.allowed THEN Reply(op, u, owner_id, "RateLimited") /\ UNCHANGED dbVars
               ELSE IF check_permission(DB, owner_id, u)
                    THEN Reply(op, u, owner_id, "AlreadyApproved") /\ UNCHANGED dbVars
               ELSE IF ~c.result
                    THEN Reply(op, u, owner_id, "AlreadyRequested") /\ UNCHANGED dbVars
               ELSE /\ LogRoom
                    /\ SetDB(c.db)
                    /\ Reply(op, u, owner_id, "Requested")

callback_request_access(u, data) ==
    callback_request_access_insert(u, data, RateRoom) /\ UNCHANGED in_flight

callback_request_access_suspended(u, data) ==
    callback_request_access_insert(u, data, RequestsRoom) /\ Suspend(u)

\* a request handler resumed after create_permission_request: the owner is
\* sent the approve / deny buttons and the requester the confirmation, or,
\* when sending raises, the error text; p is <<owner, requester>>
request_access_notify(p) ==
    /\ in_flight[p] > 0
    /\ in_flight' = [in_flight EXCEPT ![p] = @ - 1]
    /\ \E sent \in BOOLEAN :
          Reply("request_access_notify", p[2], p[1],
                IF sent THEN "Notified" ELSE "NotifyFailed")
    /\ UNCHANGED <<dbVars, now, last_response, rateVars,
                   task, log_start, mailVars>>

\* mutant: the response is written without looking for a pending request
respond_callback_unguarded(op, prefix, new_status, u, data) ==
    LET requester_id == validate_callback_data(data, prefix)
        c == update_permission(DB, u, requester_id, new_status, now)
    IN
    /\ UNCHANGED <<now, botVars>>
    /\ IF requester_id = None
       THEN Reply(op, u, 0, "Invalid") /\ UNCHANGED <<dbVars, last_response>>
       ELSE /\ LogRoom
            /\ SetDB(c.db)
            /\ last_response' = [last_response EXCEPT ![<<u, requester_id>>] = new_status]
            /\ Reply(op, u, requester_id, "Responded")

\* the body shared by the buttons perm_approve_<id> and perm_deny_<id>
respond_callback(op, prefix, new_status, u, data) ==
    LET owner_id == u
        requester_id == validate_callback_data(data, prefix)
        pending_request ==
            \E i \in MatchingRows(permissions, owner_id, requester_id) :
                permissions[i].status = "pending"
        c == update_permission(DB, owner_id, requester_id, new_status, now)
    IN
    /\ UNCHANGED <<now, botVars>>
    /\ IF requester_id = None
       THEN Reply(op, u, 0, "Invalid") /\ UNCHANGED <<dbVars, last_response>>
       ELSE IF ~HasMethod("get_connection")
       THEN \* db.get_connection() raises AttributeError inside the try block;
            \* except Exception answers with an error and returns
            Reply(op, u, requester_id, "Error") /\ UNCHANGED <<dbVars, last_response>>
       ELSE IF ~pending_request
       THEN Reply(op, u, requester_id, "NotFound") /\ UNCHANGED <<dbVars, last_response>>
       ELSE /\ LogRoom
            /\ SetDB(c.db)
            /\ last_response' = [last_response EXCEPT ![<<owner_id, requester_id>>] = new_status]
            /\ Reply(op, u, requester_id, "Responded")

process_approve(u, data) ==
    respond_callback("process_approve", <<Word("perm"), Word("approve")>>, "approved", u, data)

process_deny(u, data) ==
    respond_callback("process_deny", <<Word("perm"), Word("deny")>>, "denied", u, data)

\* mutant: revoke_permission is called with owner and requester exchanged
cmd_revoke_swapped(u, arg) ==
    LET owner == get_user_by_telegram_id(DB, u)
        requester == get_user_by_username(DB, lstrip_at(arg))
        c == revoke_permission(DB, requester.telegram_id, u, now)
        op == "cmd_revoke"
    IN
    /\ UNCHANGED <<now, botVars>>
    /\ IF owner = NoRow \/ arg = NoArg \/ requester = NoRow
       THEN Reply(op, u, 0, "NotFound") /\ UNCHANGED <<dbVars, last_response>>
       ELSE /\ LogRoom
            /\ SetDB(c.db)
            /\ last_response' = [last_response EXCEPT ![<<requester.telegram_id, u>>] = "revoked"]
            /\ Reply(op, u, requester.telegram_id, "Revoked")

\* /revoke @username
cmd_revoke(u, arg) ==
    LET owner == get_user_by_telegram_id(DB, u)
        target_username == lstrip_at(arg)
        requester == get_user_by_username(DB, target_username)
        c == revoke_permission(DB, u, requester.telegram_id, now)
        op == "cmd_revoke"
    IN
    /\ UNCHANGED <<now, botVars>>
    /\ IF owner = NoRow
       THEN Reply(op, u, 0, "NotRegistered") /\ UNCHANGED <<dbVars, last_response>>
       ELSE IF arg = NoArg
       THEN Reply(op, u, 0, "Usage") /\ UNCHANGED <<dbVars, last_response>>
       ELSE IF requester = NoRow
       THEN Reply(op, u, 0, "NotFound") /\ UNCHANGED <<dbVars, last_response>>
       ELSE /\ LogRoom
            /\ SetDB(c.db)
            /\ last_response' = [last_response EXCEPT ![<<u, requester.telegram_id>>] = "revoked"]
            /\ Reply(op, u, requester.telegram_id, IF c.result THEN "Revoked" ELSE "NothingToRevoke")

\* mutant: the fetch goes on whatever check_permission returned
process_get_code_unchecked(entry, requester, text) ==
    LET requester_id == requester.telegram_id
        target_input == lstrip_at(text)
        owner == get_user_by_username(DB, target_input)
        has_permission == check_permission(DB, owner.telegram_id, requester_id)
        op == "process_get_code"
        ended(res) == [IdleTask EXCEPT !.pc = "done", !.entry = entry,
                                       !.requester = requester, !.target = text,
                                       !.outcome = res]
    IN
    IF IsSelf(requester, target_input)
    THEN task' = ended("SelfReference") /\ Reply(op, requester_id, requester_id, "SelfReference")
    ELSE IF is_email(target_input) /\ ~HasMethod("get_user_by_email")
    THEN task' = ended("AttributeError") /\ Reply(op, requester_id, 0, "AttributeError")
    ELSE IF owner = NoRow
    THEN task' = ended("NotFound") /\ Reply(op, requester_id, 0, "NotFound")
    ELSE /\ task' = [ended("") EXCEPT !.pc = "searching", !.owner = owner,
                                      !.has_permission = has_permission]
         /\ Reply(op, requester_id, owner.telegram_id, "Searching")

\* process_get_code up to its first await: resolve the owner and check the
\* permission; the coroutine is then suspended in message.answer(progress)
process_get_code(entry, requester, text) ==
    LET requester_id == requester.telegram_id
        target_input == lstrip_at(text)
        owner == get_user_by_username(DB, target_input)
        has_permission == check_permission(DB, owner.telegram_id, requester_id)
        op == "process_get_code"
        ended(res) == [IdleTask EXCEPT !.pc = "done", !.entry = entry,
                                       !.requester = requester, !.target = text,
                                       !.outcome = res]
    IN
    IF IsSelf(requester, target_input)
    THEN task' = ended("SelfReference") /\ Reply(op, requester_id, requester_id, "SelfReference")
    ELSE IF is_email(target_input) /\ ~HasMethod("get_user_by_email")
    THEN task' = ended("AttributeError") /\ Reply(op, requester_id, 0, "AttributeError")
    ELSE IF owner = NoRow
    THEN task' = ended("NotFound") /\ Reply(op, requester_id, 0, "NotFound")
    ELSE IF ~has_permission
    THEN /\ task' = [ended("Forbidden") EXCEPT !.owner = owner]
         /\ Reply(op, requester_id, owner.telegram_id, "Forbidden")
    ELSE /\ task' = [ended("") EXCEPT !.pc = "searching", !.owner = owner,
                                      !.has_permission = has_permission]
         /\ Reply(op, requester_id, owner.telegram_id, "Searching")

\* /get_code [@username | email]
cmd_get_code(u, arg) ==
    LET lim == RATE_LIMITS.get_code
        rl == check_rate_limit(rate_limit_storage, last_cleanup, u, "get_code",
                               lim[1], lim[2], now)
        requester == get_user_by_telegram_id(DB, u)
        op == "cmd_get_code"
    IN
    /\ TaskFree
    /\ RateRoom
    /\ SetRate(rl, u, "get_code")
    /\ UNCHANGED <<dbVars, log_start, mailVars, in_flight, now, last_response>>
    /\ IF ~rl.allowed THEN Reply(op, u, 0, "RateLimited") /\ UNCHANGED task
       ELSE IF requester = NoRow THEN Reply(op, u, 0, "NotRegistered") /\ UNCHANGED task
       ELSE IF arg = NoArg THEN Reply(op, u, 0, "UserList") /\ UNCHANGED task
       ELSE process_get_code("cmd_get_code", requester, arg)

\* a message received in state GetCodeStates.waiting_for_user_input
process_user_input(u, text) ==
    LET requester == get_user_by_telegram_id(DB, u) IN
    /\ TaskFree
    /\ UNCHANGED <<dbVars, log_start, mailVars, in_flight, now, last_response, rateVars>>
    /\ IF requester = NoRow
       THEN Reply("process_user_input", u, 0, "NotRegistered") /\ UNCHANGED task
       ELSE process_get_code("process_user_input", requester, text)

\* a message that is just @username
handle_username_mention(u, text) ==
    LET requester == get_user_by_telegram_id(DB, u) IN
    /\ TaskFree
    /\ UNCHANGED <<dbVars, log_start, mailVars, in_flight, now, last_response, rateVars>>
    /\ IF requester = NoRow
       THEN Reply("handle_username_mention", u, 0, "NotRegistered") /\ UNCHANGED task
       ELSE process_get_code("handle_username_mention", requester, text)

\* button get_code_<id>, up to its first await (callback.answer)
callback_get_code(u, data) ==
    LET lim == RATE_LIMITS.get_code
        rl == check_rate_limit(rate_limit_storage, last_cleanup, u, "get_code",
                               lim[1], lim[2], now)
        requester == get_user_by_telegram_id(DB, u)
        owner_id == validate_callback_data(data, <<Word("get"), Word("code")>>)
        owner == get_user_by_telegram_id(DB, owner_id)
        has_permission == check_permission(DB, owner_id, u)
        op == "callback_get_code"
        ended(res) == [IdleTask EXCEPT !.pc = "done", !.entry = op,
                                       !.requester = requester, !.owner = owner,
                                       !.outcome = res]
    IN
    /\ TaskFree
    /\ UNCHANGED <<dbVars, log_start, mailVars, in_flight, now, last_response>>
    /\ IF requester = NoRow
       THEN Reply(op, u, 0, "NotRegistered") /\ UNCHANGED botVars
       ELSE IF owner_id = None
       THEN Reply(op, u, 0, "Invalid") /\ UNCHANGED botVars
       ELSE IF owner = NoRow
       THEN Reply(op, u, 0, "NotFound") /\ UNCHANGED botVars
       ELSE IF ~has_permission
       THEN /\ task' = ended("Forbidden")
            /\ Reply(op, u, owner_id, "Forbidden")
            /\ UNCHANGED <<rateVars>>
       ELSE /\ RateRoom
            /\ SetRate(rl, u, "get_code")
            /\ IF ~rl.allowed
               THEN Reply(op, u, owner_id, "RateLimited") /\ UNCHANGED task
               ELSE /\ task' = [ended("") EXCEPT !.pc = "answered",
                                                 !.target = owner.username]
                    /\ Reply(op, u, owner_id, "Answered")

\* callback_get_code resumed after its awaits: process_get_code(owner_username)
callback_get_code_resume ==
    /\ task.pc = "answered"
    /\ process_get_code("callback_get_code", task.requester, task.target)
    /\ UNCHANGED <<dbVars, log_start, mailVars, in_flight, now, last_response, rateVars>>

\* what parser.get_latest_code() may return for a mailbox the model does not fix
MailOutcomes == {"connect_failed", "no_code", "code"}

\* mutant: a password that does not decrypt is passed on to the mail parser
process_get_code_fetch_undecrypted ==
    LET owner == task.owner
        rid == task.requester.telegram_id
        op == "process_get_code"
    IN
    /\ task.pc = "searching"
    /\ UNCHANGED <<dbVars, log_start, mailVars, in_flight, now, last_response, rateVars>>
    /\ IF owner.email = "" \/ owner.email_provider = ""
       THEN /\ task' = [task EXCEPT !.pc = "done", !.outcome = "IncompleteData"]
            /\ Reply(op, rid, owner.telegram_id, "IncompleteData")
       ELSE \E m \in MailOutcomes :
            IF m = "code"
            THEN /\ task' = [task EXCEPT !.pc = "found", !.decrypted = TRUE,
                                         !.sessions = @ + 1, !.code = "code"]
                 /\ Reply(op, rid, owner.telegram_id, "CodeShown")
            ELSE /\ task' = [task EXCEPT !.pc = "done", !.decrypted = TRUE,
                                         !.sessions = @ + 1, !.outcome = "NotFoundCode"]
                 /\ Reply(op, rid, owner.telegram_id, "NotFoundCode")

\* process_get_code resumed: decrypt the password, run the blocking
\* get_latest_code(), and go on to edit_text with the result
process_get_code_fetch ==
    LET owner == task.owner
        plain == decrypt_password(owner.encrypted_password)
        rid == task.requester.telegram_id
        op == "process_get_code"
    IN
    /\ task.pc = "searching"
    /\ UNCHANGED <<dbVars, log_start, mailVars, in_flight, now, last_response, rateVars>>
    /\ IF owner.email = "" \/ owner.email_provider = ""
       THEN /\ task' = [task EXCEPT !.pc = "done", !.outcome = "IncompleteData"]
            /\ Reply(op, rid, owner.telegram_id, "IncompleteData")
       ELSE IF ~plain.ok
       THEN /\ task' = [task EXCEPT !.pc = "done", !.decrypted = TRUE,
                                    !.outcome = "CredentialError"]
            /\ Reply(op, rid, owner.telegram_id, "CredentialError")
       ELSE \E m \in MailOutcomes :
            IF m = "code"
            THEN /\ task' = [task EXCEPT !.pc = "found", !.decrypted = TRUE,
                                         !.sessions = @ + 1, !.code = "code"]
                 /\ Reply(op, rid, owner.telegram_id, "CodeShown")
            ELSE /\ task' = [task EXCEPT !.pc = "done", !.decrypted = TRUE,
                                         !.sessions = @ + 1, !.outcome = "NotFoundCode"]
                 /\ Reply(op, rid, owner.telegram_id, "NotFoundCode")

\* mutant: the timestamp and the audit entry are written only once the owner
\* was notified
process_get_code_finish_if_notified ==
    LET owner == task.owner
        rid == task.requester.telegram_id
        db1 == update_last_code_request(DB, owner.telegram_id, now)
        db2 == log_action(db1, rid, "code_retrieved", <<"Got code from", owner.username>>, now)
    IN
    /\ task.pc = "found"
    /\ LogRoom
    /\ \E sent \in BOOLEAN :
          /\ SetDB(IF sent THEN db2 ELSE DB)
          /\ task' = [task EXCEPT !.pc = "done", !.notified = sent, !.outcome = "CodeDelivered"]
    /\ Reply("process_get_code", rid, owner.telegram_id, "CodeDelivered")
    /\ UNCHANGED <<log_start, mailVars, in_flight, now, last_response, rateVars>>

\* process_get_code resumed after edit_text(result): last-fetch timestamp,
\* audit entry, best-effort notification of the owner
process_get_code_finish ==
    LET owner == task.owner
        rid == task.requester.telegram_id
        db1 == update_last_code_request(DB, owner.telegram_id, now)
        db2 == log_action(db1, rid, "code_retrieved", <<"Got code from", owner.username>>, now)
    IN
    /\ task.pc = "found"
    /\ LogRoom
    /\ SetDB(db2)
    /\ \E sent \in BOOLEAN :
          task' = [task EXCEPT !.pc = "done", !.notified = sent, !.outcome = "CodeDelivered"]
    /\ Reply("process_get_code", rid, owner.telegram_id, "CodeDelivered")
    /\ UNCHANGED <<log_start, mailVars, in_flight, now, last_response, rateVars>>

(* --------------------------- bot specification ------------------------- *)
BotStart(dbs) ==
    /\ \E db \in dbs : StartOn(db)
    /\ now = 0
    /\ ret = Ret("init", 0, 0, "", "")
    /\ rate_limit_storage = <<>>
    /\ last_cleanup = 0
    /\ rate_limit_calls = <<>>
    /\ task = IdleTask
    /\ in_flight = [p \in CallPairs |-> 0]
    /\ MailIdle

BotInit == BotStart(PersistedDBs)
CodesInit == BotStart(PersistedDBs \cup {RekeyedDB})

IdData(prefix) == {prefix \o <<Num(n)>> : n \in {0, 1, 2}}
                  \cup {prefix \o <<Word("page"), Num(1)>>}

CmdRequestAccess == \E u \in Users, arg \in TargetTexts \cup {NoArg} : cmd_request_access(u, arg)
CallbackRequestAccess ==
    \E u \in Users, data \in IdData(<<Word("request"), Word("access")>>) :
        callback_request_access(u, data)
ProcessApprove ==
    \E u \in Users, data \in IdData(<<Word("perm"), Word("approve")>>) : process_approve(u, data)
ProcessDeny ==
    \E u \in Users, data \in IdData(<<Word("perm"), Word("deny")>>) : process_deny(u, data)
CmdRequestAccessSuspended ==
    \E u \in Users, arg \in TargetTexts \cup {NoArg} : cmd_request_access_suspended(u, arg)
CallbackRequestAccessSuspended ==
    \E u \in Users, data \in IdData(<<Word("request"), Word("access")>>) :
        callback_request_access_suspended(u, data)
RequestAccessNotify == \E p \in CallPairs : request_access_notify(p)
CmdRevoke == \E u \in Users, arg \in TargetTexts \cup {NoArg} : cmd_revoke(u, arg)
CmdGetCode == \E u \in Users, arg \in TargetTexts \cup {NoArg} : cmd_get_code(u, arg)
ProcessUserInput == \E u \in Users, text \in TargetTexts : process_user_input(u, text)
HandleUsernameMention == \E u \in Users, text \in MentionTexts : handle_username_mention(u, text)
CallbackGetCode ==
    \E u \in Users, data \in IdData(<<Word("get"), Word("code")>>) : callback_get_code(u, data)

\* the router of handlers/permissions.py, each handler run to its end; the
\* updates of one run are handled at one reading of the clock
PermissionsNext ==
    \/ CmdRequestAccess \/ CallbackRequestAccess
    \/ ProcessApprove \/ ProcessDeny \/ CmdRevoke

PermissionsSpec == BotInit /\ [][PermissionsNext]_vars

\* the request handlers alone: /request_access and the request_access_ button
\* of any user, each suspended after its INSERT until its notification is sent
RequestsNext ==
    CmdRequestAccessSuspended \/ CallbackRequestAccessSuspended \/ RequestAccessNotify

RequestsSpec == BotInit /\ [][RequestsNext]_vars

\* the router of handlers/codes.py; process_user_input is registered on
\* GetCodeStates.waiting_for_user_input, a state that no handler ever sets, so
\* the dispatcher hands it no update
CodesNext ==
    \/ CmdGetCode \/ HandleUsernameMention \/ CallbackGetCode
    \/ callback_get_code_resume \/ process_get_code_fetch \/ process_get_code_finish
    \/ Tick

CodesSpec == CodesInit /\ [][CodesNext]_vars

(* --------------------- rate limiter specification ---------------------- *)
\* check_rate_limit called on its own, as any handler may call it: the actions
\* and their (max_requests, time_window) are small so that a window passes
CheckedActions == {"once", "twice"}
CheckedLimits == [once |-> <<1, 1>>, twice |-> <<2, 1>>]

RateInit ==
    /\ StartOn(EmptyDB)
    /\ now = 0
    /\ ret = Ret("init", 0, 0, "", "")
    /\ rate_limit_storage = <<>>
    /\ last_cleanup = 0
    /\ rate_limit_calls = <<>>
    /\ task = IdleTask
    /\ in_flight = [p \in CallPairs |-> 0]
    /\ MailIdle

check_rate_limit_call(user_id, action) ==
    LET lim == CheckedLimits[action]
        rl == check_rate_limit(rate_limit_storage, last_cleanup, user_id, action,
                               lim[1], lim[2], now)
    IN
    /\ Stamps(rate_limit_calls, DOMAIN rate_limit_calls) < MaxChecks
    /\ SetRate(rl, user_id, action)
    /\ ret' = Ret("check_rate_limit", user_id, 0, action,
                  [allowed |-> rl.allowed, remaining |-> rl.remaining])
    /\ UNCHANGED <<dbVars, now, last_response, task, log_start, mailVars, in_flight>>

CheckRateLimit == \E u \in Users, action \in CheckedActions : check_rate_limit_call(u, action)

\* time.time() moves on between two calls
ClockTick ==
    /\ now < MaxClock
    /\ now' = now + 1
    /\ UNCHANGED <<dbVars, ret, last_response, botVars>>

RateNext == CheckRateLimit \/ ClockTick

RateSpec == RateInit /\ [][RateNext]_vars

(* ======================= claims on the registry ======================== *)
RowsOf(o, r) == MatchingRows(permissions, o, r)
HasRow(o, r, st) == \E i \in RowsOf(o, r) : permissions[i].status = st

\* C1: in every reachable state and for every ordered pair, check_permission
\* is true exactly when a row of the pair has status 'approved'; it is false
\* when the pair has no row or a 'pending' or 'denied' one, and a call of
\* check_permission returns that value.
C1_CheckIffApproved ==
    /\ \A p \in Pairs :
          /\ check_permission(DB, p[1], p[2]) <=> HasRow(p[1], p[2], "approved")
          /\ (RowsOf(p[1], p[2]) = {} \/ HasRow(p[1], p[2], "pending")
                \/ HasRow(p[1], p[2], "denied")) => ~check_permission(DB, p[1], p[2])
    /\ ret.op = "check_permission" => (ret.res <=> HasRow(ret.a, ret.b, "approved"))

\* a check that returned True while the opposite pair holds a non-approved row
C1_Witness ==
    /\ ret.op = "check_permission" /\ ret.res = TRUE
    /\ HasRow(ret.b, ret.a, "denied")

\* C3: after any sequence of request, approve, deny and revoke calls the table
\* holds at most one row per ordered pair (owner, requester).
C3_OneRowPerPair ==
    \A p \in Pairs : Cardinality(RowsOf(p[1], p[2])) <= 1

\* a second request for a pair was turned down while both pairs hold a row
C3_Witness ==
    /\ ret.op = "create_permission_request" /\ ret.res = FALSE
    /\ Len(permissions) = 2

\* C5 (as claimed): check_permission(o, r) is true iff the last update_permission
\* call for the pair that reported success set 'approved' and no revoke_permission
\* for the pair came after it.
C5_CheckIffLastResponseApproved ==
    \A p \in CallPairs :
        check_permission(DB, p[1], p[2]) <=> last_response[p] = "approved"

\* C6: a revoke_permission(o, r) step leaves no row of the pair, so that
\* check_permission(o, r) is false, and a create_permission_request(o, r)
\* that follows it returns True and leaves exactly one 'pending' row.
C6_RevokeThenRequest ==
    [][\A p \in CallPairs :
          /\ revoke_permission_call(p[1], p[2]) =>
                /\ MatchingRows(permissions', p[1], p[2]) = {}
                /\ ~check_permission(DB, p[1], p[2])'
          /\ (ret = Ret("revoke_permission", p[1], p[2], "", TRUE)
              /\ create_permission_request_call(p[1], p[2])) =>
                /\ ret'.res = TRUE
                /\ Cardinality(MatchingRows(permissions', p[1], p[2])) = 1
                /\ \A i \in MatchingRows(permissions', p[1], p[2]) :
                      permissions'[i].status = "pending"]_vars

\* an approved pair was revoked and then requested again: the request succeeded
C6_Witness ==
    /\ log_start >= 1
    /\ Len(action_logs) = log_start + 2
    /\ action_logs[log_start].action_type = "permission_response"
    /\ action_logs[log_start].details[1] = "approved"
    /\ action_logs[log_start + 1].action_type = "permission_revoked"
    /\ action_logs[log_start + 1].user_id = action_logs[log_start].user_id
    /\ action_logs[log_start + 1].details[2] = action_logs[log_start].details[2]
    /\ ret = Ret("create_permission_request", action_logs[log_start + 1].user_id,
                 action_logs[log_start + 1].details[2], "", TRUE)
    /\ HasRow(ret.a, ret.b, "pending")

\* C7: while a 'pending' row exists for (o, r), create_permission_request(o, r)
\* returns False and changes nothing: the tables permissions and action_logs
\* are the same after the call (status and requested_at kept, no second row,
\* no 'permission_request' entry).
C7_DuplicateRequestRejected ==
    [][\A p \in CallPairs :
          (HasRow(p[1], p[2], "pending") /\ create_permission_request_call(p[1], p[2])) =>
              /\ ret'.res = FALSE
              /\ permissions' = permissions
              /\ action_logs' = action_logs]_vars

\* a request was turned down for a pair whose pending row is older than now
C7_Witness ==
    /\ ret.op = "create_permission_request" /\ ret.res = FALSE
    /\ \E i \in RowsOf(ret.a, ret.b) :
          permissions[i].status = "pending" /\ permissions[i].requested_at < now
    /\ Len(action_logs) = log_start

\* C8 (as claimed): while the row of (o, r) is 'denied', a new
\* create_permission_request(o, r) returns True and the pair is 'pending' again.
C8_DeniedThenRequest ==
    [][\A p \in CallPairs :
          (HasRow(p[1], p[2], "denied") /\ create_permission_request_call(p[1], p[2])) =>
              /\ ret'.res = TRUE
              /\ HasRow(p[1], p[2], "pending")']_vars

\* C11: update_permission(o, r, status) called while the pair has no row leaves
\* the table permissions as it was (no row created, no other pair's row
\* changed) and check_permission(o, r) is false after it.
C11_UpdateWithoutRowIsNoOp ==
    [][\A p \in CallPairs, st \in Statuses :
          (RowsOf(p[1], p[2]) = {} /\ update_permission_call(p[1], p[2], st)) =>
              /\ permissions' = permissions
              /\ ~check_permission(DB, p[1], p[2])']_vars

\* 'approved' was written for a pair without a row while the other pair has one
C11_Witness ==
    /\ ret.op = "update_permission" /\ ret.s = "approved"
    /\ RowsOf(ret.a, ret.b) = {}
    /\ RowsOf(ret.b, ret.a) # {}

\* C12: revoke_permission(o, r) returns True and leaves no row of the pair,
\* whatever the row's status and also when the pair had none; the rows of the
\* other pairs are the ones that were there; a second revoke_permission(o, r)
\* applied to the result gives the same table permissions.
C12_RevokeIdempotent ==
    [][\A p \in CallPairs :
          revoke_permission_call(p[1], p[2]) =>
              /\ ret'.res = TRUE
              /\ MatchingRows(permissions', p[1], p[2]) = {}
              /\ permissions' = DeleteRows(permissions, RowsOf(p[1], p[2]))
              /\ \A i \in DOMAIN permissions :
                    i \notin RowsOf(p[1], p[2]) =>
                        \E j \in DOMAIN permissions' : permissions'[j] = permissions[i]
              /\ Len(permissions') = Len(permissions) - Cardinality(RowsOf(p[1], p[2]))
              /\ revoke_permission(DB', p[1], p[2], now').db.permissions = permissions'
              /\ revoke_permission(DB', p[1], p[2], now').result = TRUE]_vars

\* a pair left 'approved' by an earlier run was revoked twice in a row, the
\* second time without a row, and the second call reported success
C12_Witness ==
    /\ log_start >= 1
    /\ Len(action_logs) = log_start + 2
    /\ action_logs[log_start].action_type = "permission_response"
    /\ action_logs[log_start + 1].action_type = "permission_revoked"
    /\ action_logs[log_start + 2].action_type = "permission_revoked"
    /\ action_logs[log_start + 1].user_id = action_logs[log_start].user_id
    /\ action_logs[log_start + 2].user_id = action_logs[log_start].user_id
    /\ ret = Ret("revoke_permission", action_logs[log_start].user_id,
                 action_logs[log_start].details[2], "", TRUE)
    /\ permissions = <<>>

(* ======================= claims on the handlers ======================== *)
ApproveData(r) == <<Word("perm"), Word("approve"), Num(r)>>
DenyData(r) == <<Word("perm"), Word("deny"), Num(r)>>

\* the rows of table whose owner is not u are in table2 as they were
RowsKept(table, table2, u) ==
    \A i \in DOMAIN table :
        table[i].owner_id # u => \E j \in DOMAIN table2 : table2[j] = table[i]

\* C2: whatever the entry point (/get_code, waiting-state input, bare
\* @username, get_code_ button), process_get_code goes on to the mailbox fetch
\* only in a step in which check_permission(owner, requester) is true; the
\* decryption and the mail session happen only in a task whose check was true;
\* an attempt that ends Forbidden has decrypted nothing and opened no session.
C2_FetchOnlyAfterCheck ==
    [][/\ (task'.pc = "searching" /\ task.pc # "searching") =>
              /\ check_permission(DB, task'.owner.telegram_id, task'.requester.telegram_id)
              /\ task'.has_permission
              /\ task'.owner.telegram_id # task'.requester.telegram_id
       /\ process_get_code_fetch => task.has_permission
       /\ (task'.decrypted \/ task'.sessions > 0) => task'.has_permission
       /\ (task'.pc = "done" /\ task.pc # "done" /\ task'.owner # NoRow
              /\ ~check_permission(DB, task'.owner.telegram_id, task'.requester.telegram_id)) =>
              /\ task'.outcome = "Forbidden"
              /\ ~task'.decrypted
              /\ task'.sessions = 0]_vars

\* a button-started fetch opened a mail session for another user's mailbox
C2_Witness ==
    /\ task.entry = "callback_get_code"
    /\ task.sessions > 0 /\ task.decrypted /\ task.has_permission
    /\ task.owner.telegram_id # task.requester.telegram_id

\* C4 (as claimed): while B's request to A is 'pending', A pressing the approve
\* button turns the row 'approved', so that check_permission(A, B) is true and
\* B's next get-code attempt is not refused as Forbidden.
C4_ApproveGrantsAccess ==
    [][\A p \in CallPairs :
          (HasRow(p[1], p[2], "pending") /\ process_approve(p[1], ApproveData(p[2]))) =>
              /\ HasRow(p[1], p[2], "approved")'
              /\ check_permission(DB, p[1], p[2])']_vars

\* C9: in every step of the approve and deny buttons (caller and requester id
\* recorded in ret), in any order, a pair
\* gets status 'approved' or 'denied' only if its row was 'pending' before the
\* step; pressed for a pair that has no 'pending' row, the button is answered
\* with an error and the table permissions is left as it was.
C9_RespondOnlyFromPending ==
    [][ret'.op \in {"process_approve", "process_deny"} =>
          LET u == ret'.a
              r == ret'.b
          IN /\ \A p \in Pairs, st \in Statuses :
                   (HasRow(p[1], p[2], st)' /\ ~HasRow(p[1], p[2], st)) =>
                       HasRow(p[1], p[2], "pending")
             /\ ~HasRow(u, r, "pending") =>
                   /\ permissions' = permissions
                   /\ ret'.res \in {"Invalid", "Error", "NotFound"}]_vars

\* approve was pressed for a pair that is already 'denied' and was turned down
C9_Witness ==
    /\ ret.op = "process_approve" /\ ret.res \in {"Error", "NotFound"}
    /\ HasRow(ret.a, ret.b, "denied")

\* C10: a step of a handler of handlers/permissions.py (request, approve, deny,
\* revoke) taken for an update sent by user u, the caller it records in ret,
\* leaves every row whose owner is not u in the table as it was: only the
\* owner's own updates change or delete it.
C10_OnlyOwnerChangesRecord ==
    [][ret'.op \in {"cmd_request_access", "callback_request_access",
                    "process_approve", "process_deny", "cmd_revoke"} =>
          RowsKept(permissions, permissions', ret'.a)]_vars

\* /revoke deleted the caller's row for a user who had requested it, while a
\* row owned by another user is still there
C10_Witness ==
    /\ ret.op = "cmd_revoke" /\ ret.res = "Revoked"
    /\ RowsOf(ret.a, ret.b) = {}
    /\ \E i \in DOMAIN action_logs :
          /\ i > log_start
          /\ action_logs[i].action_type = "permission_request"
          /\ action_logs[i].user_id = ret.b
          /\ action_logs[i].details[2] = ret.a
    /\ \E i \in DOMAIN permissions : permissions[i].owner_id # ret.a

\* C13: with request handlers of the same pair (o, r) running concurrently (one
\* still suspended in its notification while the next is handled), the later
\* one is rejected as already requested and changes nothing; at most one of the
\* handlers in flight for a pair has succeeded, and the pair holds exactly one
\* row, which is 'pending'.
C13_ConcurrentRequests ==
    [][\A p \in CallPairs :
          /\ in_flight'[p] <= 1
          /\ in_flight'[p] = 1 =>
                /\ Cardinality(MatchingRows(permissions', p[1], p[2])) = 1
                /\ \A i \in MatchingRows(permissions', p[1], p[2]) :
                      permissions'[i].status = "pending"
          /\ (in_flight[p] = 1
              /\ ret'.op \in {"cmd_request_access", "callback_request_access"}
              /\ ret'.a = p[2] /\ ret'.b = p[1]) =>
                /\ ret'.res = "AlreadyRequested"
                /\ permissions' = permissions
                /\ action_logs' = action_logs]_vars

\* a second request for a pair was turned down while the first, which created
\* the pending row in this run, is still in flight
C13_Witness ==
    /\ ret.op \in {"cmd_request_access", "callback_request_access"}
    /\ ret.res = "AlreadyRequested"
    /\ in_flight[<<ret.b, ret.a>>] = 1
    /\ HasRow(ret.b, ret.a, "pending")
    /\ Len(action_logs) = log_start + 1

\* C14: the rate limiter is consulted only after the permission check passed:
\* a step that ends a get-code attempt with NotFound or Forbidden records no
\* timestamp, i.e. it leaves the rate-limit storage as it was.
C14_RejectedAttemptNotCounted ==
    [][ret'.res \in {"NotFound", "Forbidden"} =>
          rate_limit_storage' = rate_limit_storage]_vars

\* C15: a mailbox fetch for a requester happens only when the rate limiter
\* admitted that requester under 'get_code' in the same handling, i.e. a
\* timestamp of the requester is recorded under 'get_code' when the mail
\* session is opened.
C15_FetchAfterAdmission ==
    [][task'.sessions = task.sessions + 1 =>
          StoredRequests(rate_limit_storage, task.requester.telegram_id,
                         "get_code") # <<>>]_vars

\* C16: when the owner's stored password does not decrypt, the step that
\* resumes the attempt ends it with a credential error: no mail session is
\* opened, no last-fetch timestamp is written and no audit entry is appended,
\* and an attempt that ended so has opened no session.
C16_DecryptFailureStops ==
    [][/\ (/\ task.pc = "searching"
           /\ task' # task
           /\ task.owner.email # "" /\ task.owner.email_provider # ""
           /\ ~decrypt_password(task.owner.encrypted_password).ok) =>
             /\ task'.pc = "done"
             /\ task'.outcome = "CredentialError"
             /\ ret'.res = "CredentialError"
             /\ task'.sessions = task.sessions
             /\ users' = users
             /\ action_logs' = action_logs
       /\ task'.outcome = "CredentialError" => task'.sessions = 0]_vars

\* an attempt on the mailbox of an owner whose token is of an earlier key ended
C16_Witness ==
    /\ task.pc = "done"
    /\ task.outcome = "CredentialError"
    /\ task.has_permission
    /\ ~decrypt_password(task.owner.encrypted_password).ok
    /\ task.sessions = 0
    /\ get_user_by_telegram_id(DB, task.owner.telegram_id).last_code_request = NULL

\* C17: the step that follows the display of a found code writes now as the
\* owner's last_code_request and appends one 'code_retrieved' entry of the
\* requester, whether or not the owner could be notified; the code shown and
\* the outcome are the same in both cases.
C17_EffectsDespiteNotifyFailure ==
    [][(task.pc = "found" /\ task'.pc # "found") =>
          /\ get_user_by_telegram_id(DB', task.owner.telegram_id).last_code_request = now
          /\ Len(action_logs') = Len(action_logs) + 1
          /\ action_logs'[Len(action_logs')].action_type = "code_retrieved"
          /\ action_logs'[Len(action_logs')].user_id = task.requester.telegram_id
          /\ SubSeq(action_logs', 1, Len(action_logs)) = action_logs
          /\ task'.pc = "done"
          /\ task'.outcome = "CodeDelivered"
          /\ task'.code = task.code
          /\ task'.sessions = task.sessions]_vars

\* a code was delivered and the notification of the owner failed
C17_Witness ==
    /\ task.pc = "done"
    /\ task.outcome = "CodeDelivered"
    /\ ~task.notified
    /\ task.owner.telegram_id # task.requester.telegram_id
    /\ get_user_by_telegram_id(DB, task.owner.telegram_id).last_code_request # NULL
    /\ Len(action_logs) > log_start
    /\ action_logs[Len(action_logs)].action_type = "code_retrieved"
    /\ action_logs[Len(action_logs)].user_id = task.requester.telegram_id

(* ===================== claims on the rate limiter ====================== *)
\* a step of RateSpec that is a call of check_rate_limit; ret' tells which
IsCheck == rate_limit_calls' # rate_limit_calls
MaxRequestsOf(action) == CheckedLimits[action][1]
WindowOf(action) == Seconds(CheckedLimits[action][2])
\* the timestamps of requests that are newer than t
After(requests, t) == LET newer(x) == ~(x <= t) IN SelectSeq(requests, newer)

\* C18: a call of check_rate_limit(subject, action, max_requests, window) at
\* time now keeps of the recorded timestamps of (subject, action) those newer
\* than now - window; if fewer than max_requests are kept it records now and
\* returns (allowed, None); otherwise it records nothing and returns (denied,
\* remaining), remaining being the whole seconds in (oldest kept timestamp +
\* window) - now, with 0 <= remaining <= window.
C18_CheckRateLimitContract ==
    [][IsCheck =>
          LET old == StoredRequests(rate_limit_storage, ret'.a, ret'.s)
              new == StoredRequests(rate_limit_storage', ret'.a, ret'.s)
              kept == After(old, now - WindowOf(ret'.s))
              left == MinOf(kept) + WindowOf(ret'.s) - now
          IN IF Len(kept) < MaxRequestsOf(ret'.s)
             THEN /\ ret'.res.allowed
                  /\ ret'.res.remaining = NoTime
                  /\ new = Append(kept, now)
             ELSE /\ ~ret'.res.allowed
                  /\ new = kept
                  /\ ret'.res.remaining \in 0..CheckedLimits[ret'.s][2]
                  /\ Seconds(ret'.res.remaining) <= left
                  /\ left < Seconds(ret'.res.remaining + 1)]_vars

\* a call was denied half a second before the unlock time, after an older
\* timestamp of the same subject and action had been dropped
C18_Witness ==
    /\ ret.op = "check_rate_limit"
    /\ ~ret.res.allowed
    /\ ret.res.remaining = 0
    /\ LET stored == StoredRequests(rate_limit_storage, ret.a, ret.s)
           calls == StoredRequests(rate_limit_calls, ret.a, ret.s)
       IN /\ MinOf(stored) + WindowOf(ret.s) - now = 1
          /\ \E i \in DOMAIN calls : calls[i].allowed /\ calls[i].time < MinOf(stored)

\* the calls of (user_id, action) admitted at a time in (t - window, t]
AdmittedIn(user_id, action, t) ==
    LET calls == StoredRequests(rate_limit_calls, user_id, action)
    IN {i \in DOMAIN calls : /\ calls[i].allowed
                             /\ calls[i].time > t - WindowOf(action)
                             /\ calls[i].time <= t}
SlidingWindow ==
    \A user_id \in Users, action \in CheckedActions, t \in 0..now :
        Cardinality(AdmittedIn(user_id, action, t)) <= MaxRequestsOf(action)
\* what a call of (user_id, action) made now would be answered
WouldAllow(storage, last, user_id, action) ==
    check_rate_limit(storage, last, user_id, action, CheckedLimits[action][1],
                     CheckedLimits[action][2], now).allowed

\* C19: whatever the order of the calls and of the clock's steps, the calls of
\* one (subject, action) admitted within a trailing interval (t - window, t]
\* are at most max_requests (the window slides with t), and a call of one
\* (subject, action) changes neither the recorded timestamps of another
\* subject or action nor the answer a call of that other one would get.
C19_SlidingWindowPerSubject ==
    [][/\ SlidingWindow'
       /\ IsCheck =>
             \A user_id \in Users, action \in CheckedActions :
                 <<user_id, action>> # <<ret'.a, ret'.s>> =>
                    /\ StoredRequests(rate_limit_storage', user_id, action)
                          = StoredRequests(rate_limit_storage, user_id, action)
                    /\ WouldAllow(rate_limit_storage', last_cleanup', user_id, action)
                          = WouldAllow(rate_limit_storage, last_cleanup, user_id, action)]_vars

\* a call was denied although the window that began with the first admitted
\* call of the same subject and action was over: a bucket would have reset
C19_Witness ==
    /\ ret.op = "check_rate_limit"
    /\ ~ret.res.allowed
    /\ LET calls == StoredRequests(rate_limit_calls, ret.a, ret.s)
       IN /\ calls[1].allowed
          /\ now >= calls[1].time + WindowOf(ret.s)
          /\ Cardinality({i \in DOMAIN calls :
                            /\ calls[i].allowed
                            /\ calls[i].time >= calls[1].time + WindowOf(ret.s)})
                < MaxRequestsOf(ret.s)
          /\ Cardinality(AdmittedIn(ret.a, ret.s, now)) = MaxRequestsOf(ret.s)

\* C20: a call of (subject, action) made when window seconds or more have
\* passed since the oldest recorded timestamp of (subject, action) is admitted,
\* whatever calls were denied before; a denied call records nothing and leaves
\* the unlock time, oldest recorded timestamp + window, where it was.
C20_DeniedCallsDoNotPostpone ==
    [][IsCheck =>
          LET old == StoredRequests(rate_limit_storage, ret'.a, ret'.s)
              new == StoredRequests(rate_limit_storage', ret'.a, ret'.s)
          IN /\ (old # <<>> /\ now >= MinOf(old) + WindowOf(ret'.s)) => ret'.res.allowed
             /\ ~ret'.res.allowed =>
                   /\ Len(new) <= Len(old)
                   /\ \A i \in DOMAIN new : \E j \in DOMAIN old : new[i] = old[j]
                   /\ MinOf(new) = MinOf(After(old, now - WindowOf(ret'.s)))]_vars

\* a subject was admitted, then denied, and admitted again exactly window
\* seconds after the admitted call
C20_Witness ==
    /\ ret.op = "check_rate_limit"
    /\ ret.res.allowed
    /\ LET calls == StoredRequests(rate_limit_calls, ret.a, ret.s)
       IN /\ Len(calls) >= 3
          /\ calls[1].allowed
          /\ \A i \in 2..(Len(calls) - 1) : ~calls[i].allowed
          /\ calls[Len(calls)].allowed
          /\ calls[Len(calls)].time = calls[1].time + WindowOf(ret.s)
          /\ now = calls[Len(calls)].time

(* ======================= utils/email_parser.py ========================= *)
(* A text is the sequence of its characters, each a one-character string.  *)
\* the classes \d and \w of the re module, over the characters used here
IsDigit(c) == c \in {"0", "1", "2", "3", "4", "5", "6", "7", "8", "9"}
IsWord(c) == IsDigit(c) \/ c \in {"a", "b", "c", "d", "e", "h", "i", "l", "o", "x", "_"}

\* \b at position i: between text[i-1] and text[i], of which exactly one is \w
WordBoundary(text, i) ==
    LET before == i > 1 /\ IsWord(text[i - 1])
        after == i <= Len(text) /\ IsWord(text[i])
    IN before # after

\* \b(\d{n})\b matches at position i
MatchesAt(text, n, i) ==
    /\ i + n - 1 <= Len(text)
    /\ WordBoundary(text, i)
    /\ \A j \in i..(i + n - 1) : IsDigit(text[j])
    /\ WordBoundary(text, i + n)

\* re.findall(r'\b(\d{n})\b', text): the non-overlapping matches, scanning
\* from the left, each search resuming where the last match ended
RECURSIVE findall(_, _, _)
findall(text, n, i) ==
    IF i + n - 1 > Len(text) THEN <<>>
    ELSE IF MatchesAt(text, n, i)
         THEN <<SubSeq(text, i, i + n - 1)>> \o findall(text, n, i + n)
         ELSE findall(text, n, i + 1)

\* the loop over codes with the set seen: first occurrences only, order kept
RECURSIVE unique_codes(_, _)
unique_codes(codes, seen) ==
    IF codes = <<>> THEN <<>>
    ELSE IF Head(codes) \in seen
         THEN unique_codes(Tail(codes), seen)
         ELSE <<Head(codes)>> \o unique_codes(Tail(codes), seen \cup {Head(codes)})

\* the three patterns are applied one after the other and their matches
\* appended in that order: the 6-digit ones, then the 7-, then the 8-digit ones
extract_codes_from_subject(subject) ==
    unique_codes(findall(subject, 6, 1) \o findall(subject, 7, 1)
                     \o findall(subject, 8, 1), {})

(* ------------------------- the owner's mailbox ------------------------- *)
(* A message is [subject, date, seen]: the Subject header, the Date header *)
(* as [wall, zone] (the wall-clock reading in ticks and the zone field as  *)
(* written) and the \Seen flag.  Its identifier is its position in INBOX;  *)
(* SEARCH ALL lists the identifiers in ascending order.                    *)
Minutes(n) == Seconds(60 * n)

MAX_CODE_AGE_MINUTES == 10

\* a run of n digits d
Code(d, n) == [i \in 1..n |-> d]

\* the messages a mailbox may hold when the fetch runs at time 0
Messages ==
    { [subject |-> Code("1", 6) \o <<" ">> \o Code("7", 7),
       date |-> [wall |-> 0, zone |-> ""], seen |-> FALSE],
      [subject |-> <<"i", "d", " ">> \o Code("2", 6),
       date |-> [wall |-> 0 - Minutes(MAX_CODE_AGE_MINUTES), zone |-> "+0000"],
       seen |-> FALSE],
      [subject |-> Code("3", 6),
       date |-> [wall |-> 0 - Minutes(MAX_CODE_AGE_MINUTES) - 1, zone |-> "+0000"],
       seen |-> TRUE],
      [subject |-> Code("4", 6),
       date |-> [wall |-> 0, zone |-> "yesterday"], seen |-> FALSE],
      [subject |-> Code("5", 6),
       date |-> [wall |-> 0 - Minutes(180) - Minutes(1), zone |-> "-0300"],
       seen |-> TRUE],
      [subject |-> Code("6", 6),
       date |-> [wall |-> Minutes(180) - Minutes(MAX_CODE_AGE_MINUTES + 1),
                 zone |-> "+0300"],
       seen |-> FALSE],
      [subject |-> <<"h", "e", "l", "l", "o">>,
       date |-> [wall |-> 0, zone |-> "+0000"], seen |-> FALSE] }

Inboxes == UNION {[1..n -> Messages] : n \in 0..MaxInbox}

(* ----------------------------- EmailParser ----------------------------- *)
NoCode == <<>>            \* get_latest_code returned None

\* connect(): self.connection is assigned as soon as IMAP4_SSL returns,
\* before login; both except branches return False without closing it
connect(server, outcome) ==
    CASE outcome \in {"unknown_provider", "unreachable"} ->
             [ok |-> FALSE, connection |-> "none", server |-> server]
      [] outcome = "login_failed" ->
             [ok |-> FALSE, connection |-> "NONAUTH",
              server |-> [server EXCEPT !.sessions = @ + 1]]
      [] outcome = "ok" ->
             [ok |-> TRUE, connection |-> "AUTH",
              server |-> [server EXCEPT !.sessions = @ + 1]]

\* a variant that logs out only of a session that had been authenticated
disconnect_if_authenticated(connection, server) ==
    IF connection = "AUTH" /\ server.sessions > 0
    THEN [server EXCEPT !.sessions = @ - 1]
    ELSE server

\* disconnect(): logout whenever a connection object exists; LOGOUT is valid
\* in every state of the session.  On a session the server has already
\* dropped logout raises, which the bare except swallows.
disconnect(connection, server) ==
    IF connection # "none" /\ server.sessions > 0
    THEN [server EXCEPT !.sessions = @ - 1]
    ELSE server

\* the zone field of a Date header as parsedate_to_datetime reads it
ZoneOffsets == ("+0000" :> 0 @@ "+0300" :> Minutes(180) @@ "-0300" :> (0 - Minutes(180)))

NoDate == [parsed |-> FALSE, wall |-> 0, aware |-> FALSE, utcoffset |-> 0]

\* _parse_email_date: a datetime, naive when the header names no zone, or
\* None when parsedate_to_datetime raises
parse_email_date(date) ==
    IF date.zone = ""
    THEN [parsed |-> TRUE, wall |-> date.wall, aware |-> FALSE, utcoffset |-> 0]
    ELSE IF date.zone \in DOMAIN ZoneOffsets
         THEN [parsed |-> TRUE, wall |-> date.wall, aware |-> TRUE,
               utcoffset |-> ZoneOffsets[date.zone]]
         ELSE NoDate

\* a variant that compares the wall-clock reading without converting to UTC
is_email_recent_wall_clock(email_date, now_utc) ==
    IF ~email_date.parsed THEN FALSE
    ELSE now_utc - email_date.wall <= Minutes(MAX_CODE_AGE_MINUTES)

\* _is_email_recent
is_email_recent(email_date, now_utc) ==
    IF ~email_date.parsed THEN FALSE
    ELSE LET email_date_naive ==
                 IF email_date.aware
                 THEN email_date.wall - email_date.utcoffset
                 ELSE email_date.wall
             age == now_utc - email_date_naive
         IN age <= Minutes(MAX_CODE_AGE_MINUTES)

\* FETCH id (RFC822) on a mailbox opened with SELECT: the server returns the
\* message and sets its \Seen flag
imap_fetch(server, id) == [server EXCEPT !.inbox[id].seen = TRUE]

\* _fetch_email: None when the FETCH is refused or raises.  The field id is
\* history: the identifier the message was fetched under.
fetch_email(server, email_id, fetched) ==
    IF fetched
    THEN [ok |-> TRUE,
          email_data |-> [id |-> email_id,
                          subject |-> server.inbox[email_id].subject,
                          date |-> parse_email_date(server.inbox[email_id].date)],
          server |-> imap_fetch(server, email_id)]
    ELSE [ok |-> FALSE,
          email_data |-> [id |-> 0, subject |-> <<>>, date |-> NoDate],
          server |-> server]

\* a variant that keeps the order of the SEARCH reply
latest_ids_ascending(email_ids, count) ==
    IF count >= Len(email_ids) THEN email_ids
    ELSE SubSeq(email_ids, Len(email_ids) - count + 1, Len(email_ids))

\* email_ids[-count:] followed by reverse()
latest_ids(email_ids, count) ==
    LET last == IF count >= Len(email_ids) THEN email_ids
                ELSE SubSeq(email_ids, Len(email_ids) - count + 1, Len(email_ids))
    IN [i \in 1..Len(last) |-> last[Len(last) + 1 - i]]

\* the loop over latest_ids; failed are the identifiers whose fetch fails
RECURSIVE fetch_emails(_, _, _)
fetch_emails(server, ids, failed) ==
    IF ids = <<>> THEN [emails |-> <<>>, server |-> server]
    ELSE LET one == fetch_email(server, Head(ids), Head(ids) \notin failed)
             rest == fetch_emails(one.server, Tail(ids), failed)
         IN [emails |-> IF one.ok THEN <<one.email_data>> \o rest.emails
                        ELSE rest.emails,
             server |-> rest.server]

\* get_latest_emails: [] when SEARCH answers other than OK or anything raises
get_latest_emails(server, count, outcome, failed) ==
    CASE outcome = "search_failed" -> [emails |-> <<>>, server |-> server]
      [] outcome = "link_lost" ->
             [emails |-> <<>>, server |-> [server EXCEPT !.sessions = 0]]
      [] outcome = "ok" ->
             LET email_ids == [i \in 1..Len(server.inbox) |-> i]
             IN fetch_emails(server, latest_ids(email_ids, count), failed)

\* find_codes_in_emails: the recent emails whose subject yields a code
find_codes_in_emails(emails, now_utc) ==
    LET kept == SelectSeq(emails, LAMBDA e :
                    /\ is_email_recent(e.date, now_utc)
                    /\ extract_codes_from_subject(e.subject) # <<>>)
    IN [i \in 1..Len(kept) |->
           [email |-> kept[i], codes |-> extract_codes_from_subject(kept[i].subject)]]

(* get_latest_code, one step per call it makes on the mail server.         *)
(* parser.path names the return statement reached; parser.before is        *)
(* history: INBOX as it was when the fetch began.                          *)
CalledParser(server) ==
    [pc |-> "connect", connection |-> "none", emails |-> <<>>, failed |-> {},
     code |-> NoCode, source |-> 0, path |-> "", before |-> server.inbox]

MailFrame ==
    UNCHANGED <<dbVars, last_response, now, ret, rateVars, task, log_start, in_flight, vault, fsm_state>>

get_latest_code_call ==
    /\ parser.pc = "idle"
    /\ parser' = CalledParser(mail_server)
    /\ UNCHANGED mail_server
    /\ MailFrame

\* if not self.connect(): return None
get_latest_code_connect ==
    /\ parser.pc = "connect"
    /\ \E outcome \in {"unknown_provider", "unreachable", "login_failed", "ok"} :
           LET c == connect(mail_server, outcome)
           IN /\ mail_server' = c.server
              /\ parser' = [parser EXCEPT !.connection = c.connection,
                                          !.pc = IF c.ok THEN "emails" ELSE "finally",
                                          !.path = IF c.ok THEN "" ELSE outcome]
    /\ MailFrame

\* emails = self.get_latest_emails(); if not emails: return None
get_latest_code_emails ==
    /\ parser.pc = "emails"
    /\ \E outcome \in {"ok", "search_failed", "link_lost"} :
       \E failed \in SUBSET (IF outcome = "ok" THEN 1..Len(mail_server.inbox) ELSE {}) :
           LET r == get_latest_emails(mail_server, MAX_EMAILS_TO_CHECK, outcome, failed)
           IN /\ mail_server' = r.server
              /\ parser' = [parser EXCEPT
                     !.emails = r.emails,
                     !.failed = failed,
                     !.pc = IF r.emails = <<>> THEN "finally" ELSE "codes",
                     !.path = IF r.emails # <<>> THEN ""
                              ELSE IF outcome = "ok" THEN "no_emails" ELSE outcome]
    /\ MailFrame

\* find_codes_in_emails and the choice of codes[0] of emails_with_codes[0];
\* anything raised here is caught by the except branch, which returns None
get_latest_code_codes ==
    /\ parser.pc = "codes"
    /\ \E raised \in BOOLEAN :
           LET emails_with_codes == find_codes_in_emails(parser.emails, now)
           IN parser' =
                  IF raised
                  THEN [parser EXCEPT !.pc = "finally", !.path = "exception"]
                  ELSE IF emails_with_codes = <<>>
                       THEN [parser EXCEPT !.pc = "finally", !.path = "no_code"]
                       ELSE [parser EXCEPT
                                !.pc = "finally", !.path = "code",
                                !.code = emails_with_codes[1].codes[1],
                                !.source = emails_with_codes[1].email.id]
    /\ UNCHANGED mail_server
    /\ MailFrame

\* finally: self.disconnect()
get_latest_code_finally ==
    /\ parser.pc = "finally"
    /\ mail_server' = disconnect(parser.connection, mail_server)
    /\ parser' = [parser EXCEPT !.pc = "returned"]
    /\ MailFrame

(* ------------------------- mail specification -------------------------- *)
MailInit ==
    /\ StartOn(EmptyDB)
    /\ now = 0
    /\ ret = Ret("init", 0, 0, "", "")
    /\ rate_limit_storage = <<>>
    /\ last_cleanup = 0
    /\ rate_limit_calls = <<>>
    /\ task = IdleTask
    /\ in_flight = [p \in CallPairs |-> 0]
    /\ \E inbox \in Inboxes : mail_server = [inbox |-> inbox, sessions |-> 0]
    /\ parser = IdleParser
    /\ vault = [pc |-> "idle"]
    /\ fsm_state = NoState

MailNext ==
    \/ get_latest_code_call
    \/ get_latest_code_connect
    \/ get_latest_code_emails
    \/ get_latest_code_codes
    \/ get_latest_code_finally

MailSpec == MailInit /\ [][MailNext]_vars

(* ---------------------------------------------------------------------- *)
(* C21: every run of get_latest_code releases its mail session before     *)
(* returning, on every path - connection or login failure, empty mailbox, *)
(* no code found, code found, an exception while listing or parsing: once *)
(* the fetch has returned the server holds no session opened by it.       *)
C21_SessionReleased ==
    parser.pc = "returned" => mail_server.sessions = 0

\* a fetch whose login was refused after the connection had been opened has
\* returned
C21_Witness ==
    /\ parser.pc = "returned"
    /\ parser.path = "login_failed"
    /\ parser.connection = "NONAUTH"
    /\ mail_server.sessions = 0

(* ---------------------------------------------------------------------- *)
(* C22: a code fetch leaves the owner's mailbox unchanged: once           *)
(* get_latest_code has returned, INBOX holds the same messages with the   *)
(* same flags, the seen flag included, as when the fetch began.           *)
C22_MailboxUnchanged ==
    parser.pc = "returned" => mail_server.inbox = parser.before

(* ---------------------------------------------------------------------- *)
(* C23: get_latest_code considers only the MAX_EMAILS_TO_CHECK messages   *)
(* with the highest identifiers, newest first, and returns the first      *)
(* candidate of the first of them that is fresh and has a candidate; it   *)
(* returns nothing when there is none, and never a code of an older       *)
(* message when a newer fresh one has a candidate.  The choice is stated  *)
(* for fetches in which the session and every FETCH succeeded.            *)
Considered(inbox) ==
    {i \in 1..Len(inbox) : i > Len(inbox) - MAX_EMAILS_TO_CHECK}

Eligible(inbox, i, t) ==
    /\ is_email_recent(parse_email_date(inbox[i].date), t)
    /\ extract_codes_from_subject(inbox[i].subject) # <<>>

C23_NewestFreshCandidate ==
    parser.pc = "returned" =>
        LET inbox == parser.before
            eligible == {i \in Considered(inbox) : Eligible(inbox, i, now)}
        IN /\ parser.code # NoCode => parser.source \in Considered(inbox)
           /\ (/\ parser.path \in {"no_emails", "no_code", "code"}
               /\ parser.failed \cap Considered(inbox) = {}) =>
                  IF eligible = {}
                  THEN parser.code = NoCode
                  ELSE LET newest == CHOOSE i \in eligible : \A j \in eligible : j <= i
                       IN /\ parser.source = newest
                          /\ parser.code =
                                 extract_codes_from_subject(inbox[newest].subject)[1]

\* the mailbox holds more messages than a fetch looks at; the newest one is
\* passed over, the code comes from the one below it, and an eligible message
\* outside the newest MAX_EMAILS_TO_CHECK is left alone
C23_Witness ==
    /\ parser.pc = "returned"
    /\ parser.path = "code"
    /\ parser.failed = {}
    /\ Len(parser.before) > MAX_EMAILS_TO_CHECK
    /\ parser.source = Len(parser.before) - 1
    /\ Eligible(parser.before, parser.source - 1, now)
    /\ Eligible(parser.before, 1, now)
    /\ 1 \notin Considered(parser.before)

(* ---------------------------------------------------------------------- *)
(* C24: a code is never returned from a message whose date could not be   *)
(* parsed or whose age - message date and current time both in UTC -      *)
(* exceeds MAX_CODE_AGE_MINUTES, whatever its subject holds; a message    *)
(* whose age equals the threshold is still eligible.                      *)
\* the instant a Date header denotes, in UTC ticks; defined when the zone is
\* absent (read as UTC) or one of the numeric zones
UtcInstant(date) ==
    CASE date.zone = "" -> date.wall
      [] date.zone = "+0000" -> date.wall
      [] date.zone = "+0300" -> date.wall - Minutes(180)
      [] date.zone = "-0300" -> date.wall + Minutes(180)

DateReadable(date) == date.zone \in {"", "+0000", "+0300", "-0300"}

C24_OnlyFreshMessages ==
    parser.pc = "returned" =>
        /\ parser.code # NoCode =>
               LET date == parser.before[parser.source].date
               IN /\ DateReadable(date)
                  /\ now - UtcInstant(date) <= Minutes(MAX_CODE_AGE_MINUTES)
        /\ \A i \in Considered(parser.before) :
               LET date == parser.before[i].date
               IN (/\ parser.path \in {"no_emails", "no_code", "code"}
                   /\ parser.failed = {}
                   /\ DateReadable(date)
                   /\ now - UtcInstant(date) = Minutes(MAX_CODE_AGE_MINUTES)
                   /\ extract_codes_from_subject(parser.before[i].subject) # <<>>)
                  => parser.code # NoCode

\* the newest message was written in a zone east of UTC and is a minute too
\* old although its wall-clock reading is in the future; the code comes from
\* the message below it, whose age is exactly the threshold
C24_Witness ==
    /\ parser.pc = "returned"
    /\ parser.code # NoCode
    /\ Len(parser.before) >= 2
    /\ parser.source = Len(parser.before) - 1
    /\ now - UtcInstant(parser.before[parser.source].date)
           = Minutes(MAX_CODE_AGE_MINUTES)
    /\ LET newest == parser.before[Len(parser.before)]
       IN /\ newest.date.zone = "+0300"
          /\ newest.date.wall > now
          /\ extract_codes_from_subject(newest.subject) # <<>>

(* ------------------------ subject specification ------------------------ *)
(* _extract_codes_from_subject on its own: a subject is put together from  *)
(* up to MaxPieces pieces, each a run of digits or a single separator.     *)
Pieces ==
    {Code("1", 6), Code("2", 6), Code("7", 7), Code("8", 8), Code("5", 5),
     Code("9", 9), <<" ">>, <<"a">>, <<"_">>, <<":">>}

RECURSIVE Subjects(_)
Subjects(n) ==
    IF n = 0 THEN {<<>>}
    ELSE Subjects(n - 1) \cup {s \o p : s \in Subjects(n - 1), p \in Pieces}

SubjectInit ==
    /\ StartOn(EmptyDB)
    /\ now = 0
    /\ ret = Ret("init", 0, 0, "", "")
    /\ rate_limit_storage = <<>>
    /\ last_cleanup = 0
    /\ rate_limit_calls = <<>>
    /\ task = IdleTask
    /\ in_flight = [p \in CallPairs |-> 0]
    /\ mail_server = [inbox |-> <<>>, sessions |-> 0]
    /\ \E subject \in Subjects(MaxPieces) :
           parser = [pc |-> "subject", subject |-> subject, codes |-> <<>>]
    /\ vault = [pc |-> "idle"]
    /\ fsm_state = NoState

extract_codes_from_subject_call ==
    /\ parser.pc = "subject"
    /\ parser' = [parser EXCEPT !.pc = "extracted",
                                !.codes = extract_codes_from_subject(parser.subject)]
    /\ UNCHANGED mail_server
    /\ MailFrame

SubjectNext == extract_codes_from_subject_call

SubjectSpec == SubjectInit /\ [][SubjectNext]_vars

\* the maximal runs of consecutive digits of a text, as <<start, length>>
MaximalRuns(text) ==
    {r \in (1..Len(text)) \X (1..Len(text)) :
        /\ r[1] + r[2] - 1 <= Len(text)
        /\ \A j \in r[1]..(r[1] + r[2] - 1) : IsDigit(text[j])
        /\ r[1] = 1 \/ ~IsDigit(text[r[1] - 1])
        /\ r[1] + r[2] - 1 = Len(text) \/ ~IsDigit(text[r[1] + r[2]])}

RunText(text, r) == SubSeq(text, r[1], r[1] + r[2] - 1)

\* where a value first appears in a text as a maximal run of digits
FirstAppearance(text, code) ==
    LET starts == {r[1] : r \in {q \in MaximalRuns(text) : RunText(text, q) = code}}
    IN CHOOSE i \in starts : \A j \in starts : i <= j

(* ---------------------------------------------------------------------- *)
(* C25: the candidate list extracted from a subject holds no value twice  *)
(* and lists the candidates in the order of their first appearance in the *)
(* subject, also when the subject mixes codes of 6, 7 and 8 digits; the   *)
(* code chosen for a message, the first of the list, is the leftmost      *)
(* candidate of its subject.                                              *)
C25_OrderOfFirstAppearance ==
    parser.pc = "extracted" =>
        \A i, j \in 1..Len(parser.codes) :
            i < j => /\ parser.codes[i] # parser.codes[j]
                     /\ FirstAppearance(parser.subject, parser.codes[i])
                            < FirstAppearance(parser.subject, parser.codes[j])

(* ---------------------------------------------------------------------- *)
(* C26: the set of candidates extracted from a subject is the set of the  *)
(* maximal runs of consecutive digits of length exactly 6, 7 or 8: every  *)
(* such run is a candidate whatever surrounds it (letters, underscore,    *)
(* punctuation, the ends of the string), and no part of a run of 5 or     *)
(* fewer or of 9 or more digits is one.                                   *)
C26_MaximalDigitRuns ==
    parser.pc = "extracted" =>
        {parser.codes[i] : i \in 1..Len(parser.codes)}
            = {RunText(parser.subject, r) :
                  r \in {q \in MaximalRuns(parser.subject) : q[2] \in {6, 7, 8}}}

(* ----------------------- encryption specification ---------------------- *)
(* A password is encrypted, the stored token may be damaged or replaced    *)
(* once, and the token is decrypted.                                       *)
Passwords ==
    {<<>>, <<"p", "w", "1">>, <<"p", " ", "e-acute">>, <<"euro", "2">>}

\* what a stored token can turn into: one field altered, the end cut off,
\* the base64 broken, a token made under another key, or another token of
\* this key
Tampered(token) ==
    {[token EXCEPT !.ciphertext.data =
          <<113>> \o SubSeq(token.ciphertext.data, 2, Len(token.ciphertext.data))],
     [token EXCEPT !.hmac.timestamp = @ + 1],
     [token EXCEPT !.version = 129],
     [token EXCEPT !.timestamp = @ + 1],
     [token EXCEPT !.iv = @ + 1],
     [token EXCEPT !.complete = FALSE],
     [token EXCEPT !.armor = "garbage"],
     Fernet_encrypt("sha256(another key)", token.ciphertext.data,
                    token.timestamp, token.iv)}
        \cup {encrypt_password(p, 0, 0) : p \in Passwords}

VaultInit ==
    /\ StartOn(EmptyDB)
    /\ now = 0
    /\ ret = Ret("init", 0, 0, "", "")
    /\ rate_limit_storage = <<>>
    /\ last_cleanup = 0
    /\ rate_limit_calls = <<>>
    /\ task = IdleTask
    /\ in_flight = [p \in CallPairs |-> 0]
    /\ mail_server = [inbox |-> <<>>, sessions |-> 0]
    /\ parser = IdleParser
    /\ \E password \in Passwords : vault = [pc |-> "plain", password |-> password]
    /\ fsm_state = NoState

\* vault.issued is history: the token as encrypt returned it
encrypt_password_call ==
    /\ vault.pc = "plain"
    /\ \E iv \in {0, 1} :
           LET token == encrypt_password(vault.password, now, iv)
           IN vault' = [pc |-> "stored", password |-> vault.password,
                        token |-> token, issued |-> token]
    /\ UNCHANGED <<dbVars, last_response, now, ret, rateVars, task, log_start,
                   in_flight, mail_server, parser, fsm_state>>

tamper ==
    /\ vault.pc = "stored"
    /\ vault.token = vault.issued
    /\ \E token \in Tampered(vault.token) \ {vault.token} :
           vault' = [vault EXCEPT !.token = token]
    /\ UNCHANGED <<dbVars, last_response, now, ret, rateVars, task, log_start,
                   in_flight, mail_server, parser, fsm_state>>

decrypt_password_call ==
    /\ vault.pc = "stored"
    /\ vault' = [pc |-> "decrypted", password |-> vault.password,
                 token |-> vault.token, issued |-> vault.issued,
                 result |-> decrypt_password(vault.token)]
    /\ UNCHANGED <<dbVars, last_response, now, ret, rateVars, task, log_start,
                   in_flight, mail_server, parser, fsm_state>>

VaultNext ==
    \/ encrypt_password_call
    \/ tamper
    \/ decrypt_password_call

VaultSpec == VaultInit /\ [][VaultNext]_vars

(* ---------------------------------------------------------------------- *)
(* C27: for every plaintext password p, decrypt(encrypt(p)) = p under the *)
(* single process-wide key.                                               *)
C27_RoundTrip ==
    (vault.pc = "decrypted" /\ vault.token = vault.issued) =>
        /\ vault.result.ok
        /\ vault.result.password = vault.password

\* a password with a character of more than one byte has come back
C27_Witness ==
    /\ vault.pc = "decrypted"
    /\ vault.token = vault.issued
    /\ \E i \in 1..Len(vault.password) : Len(Utf8[vault.password[i]]) > 1
    /\ vault.result.ok
    /\ vault.result.password = vault.password

(* ---------------------------------------------------------------------- *)
(* C28: decrypt applied to a tampered or malformed ciphertext fails with  *)
(* an error and never returns a plaintext: for every ciphertext c the     *)
(* result of decrypt(c) is either the plaintext whose encryption produced *)
(* c or an error.                                                         *)
C28_TamperedFails ==
    (vault.pc = "decrypted" /\ vault.result.ok) =>
        \E p \in Passwords, t \in {0}, iv \in {0, 1} :
            /\ vault.token = encrypt_password(p, t, iv)
            /\ vault.result.password = p

\* a token whose ciphertext was altered has been refused
C28_Witness ==
    /\ vault.pc = "decrypted"
    /\ vault.token # vault.issued
    /\ vault.token.ciphertext # vault.issued.ciphertext
    /\ vault.token.hmac = vault.issued.hmac
    /\ ~vault.result.ok

(* ----------------------- event loop specification ---------------------- *)
(* handlers/codes.py and /revoke on the one asyncio event loop, with       *)
(* get_latest_code taken call by call.  process_get_code calls             *)
(* parser.get_latest_code() as a plain function, without await and without *)
(* an executor: from the call to its return the loop runs no other         *)
(* handler.                                                                *)
LoopFree == parser.pc = "idle"

\* process_get_code resumed after the 'searching' message, up to the call of
\* parser.get_latest_code()
process_get_code_fetch_call ==
    LET owner == task.owner
        plain == decrypt_password(owner.encrypted_password)
        rid == task.requester.telegram_id
        op == "process_get_code"
    IN
    /\ task.pc = "searching"
    /\ LoopFree
    /\ UNCHANGED <<dbVars, log_start, in_flight, now, last_response, rateVars,
                   mail_server, vault, fsm_state>>
    /\ IF owner.email = "" \/ owner.email_provider = ""
       THEN /\ task' = [task EXCEPT !.pc = "done", !.outcome = "IncompleteData"]
            /\ Reply(op, rid, owner.telegram_id, "IncompleteData")
            /\ UNCHANGED parser
       ELSE IF ~plain.ok
       THEN /\ task' = [task EXCEPT !.pc = "done", !.decrypted = TRUE,
                                    !.outcome = "CredentialError"]
            /\ Reply(op, rid, owner.telegram_id, "CredentialError")
            /\ UNCHANGED parser
       ELSE /\ task' = [task EXCEPT !.pc = "fetching", !.decrypted = TRUE]
            /\ parser' = CalledParser(mail_server)
            /\ UNCHANGED ret

\* get_latest_code() has returned: 'if code:' shows the code, the else branch
\* shows the not-found text whatever made the parser return None
process_get_code_fetch_return ==
    LET owner == task.owner
        rid == task.requester.telegram_id
        op == "process_get_code"
        opened == IF parser.connection = "none" THEN 0 ELSE 1
    IN
    /\ task.pc = "fetching"
    /\ parser.pc = "returned"
    /\ parser' = IdleParser
    /\ UNCHANGED <<dbVars, log_start, in_flight, now, last_response, rateVars,
                   mail_server, vault, fsm_state>>
    /\ IF parser.code # NoCode
       THEN /\ task' = [task EXCEPT !.pc = "found", !.sessions = @ + opened,
                                    !.code = "code"]
            /\ Reply(op, rid, owner.telegram_id, "CodeShown")
       ELSE /\ task' = [task EXCEPT !.pc = "done", !.sessions = @ + opened,
                                    !.outcome = "NotFoundCode"]
            /\ Reply(op, rid, owner.telegram_id, "NotFoundCode")

LoopInit ==
    /\ \E db \in PersistedDBs : StartOn(db)
    /\ now = 0
    /\ ret = Ret("init", 0, 0, "", "")
    /\ rate_limit_storage = <<>>
    /\ last_cleanup = 0
    /\ rate_limit_calls = <<>>
    /\ task = IdleTask
    /\ in_flight = [p \in CallPairs |-> 0]
    /\ \E inbox \in {b \in Inboxes : Len(b) <= 1} :
           mail_server = [inbox |-> inbox, sessions |-> 0]
    /\ parser = IdleParser
    /\ vault = [pc |-> "idle"]
    /\ fsm_state = NoState

LoopNext ==
    \/ (LoopFree /\ HandleUsernameMention)
    \/ (LoopFree /\ CmdRevoke)
    \/ process_get_code_fetch_call
    \/ get_latest_code_connect
    \/ get_latest_code_emails
    \/ get_latest_code_codes
    \/ get_latest_code_finally
    \/ process_get_code_fetch_return
    \/ (LoopFree /\ process_get_code_finish)

LoopSpec == LoopInit /\ [][LoopNext]_vars

(* ---------------------------------------------------------------------- *)
(* C29: a failure to open or authenticate the mail session during a code  *)
(* fetch is reported to the requester as a connection failure             *)
(* (ConnectionFailed), distinguishable from the empty result of a         *)
(* reachable mailbox without a fresh matching code (NotFoundCode).        *)
C29_ConnectionFailureReported ==
    [][(/\ task.pc = "fetching"
        /\ parser.pc = "returned"
        /\ parser.path \in {"unknown_provider", "unreachable", "login_failed"}
        /\ task'.pc = "done")
       => (task'.outcome = "ConnectionFailed" /\ ret'.res = "ConnectionFailed")]_vars

(* ---------------------------------------------------------------------- *)
(* C30: a mailbox fetch in progress for one (owner, requester) pair does  *)
(* not block the handling of commands for unrelated pairs: while the      *)
(* fetch is waiting on the mail server, a permission mutation of another  *)
(* pair can start and complete.                                           *)
C30_FetchDoesNotBlock ==
    (/\ task.pc = "fetching"
     /\ parser.pc \in {"connect", "emails"}
     /\ LogRoom) =>
        \E u \in Users \ {task.owner.telegram_id}, arg \in TargetTexts :
            ENABLED (LoopFree /\ cmd_revoke(u, arg))

(* ---------------------------------------------------------------------- *)
(* C31: no permission record with owner = requester is ever created       *)
(* through the request handlers: a request whose target is the requesting *)
(* identity itself - by handle, by email or by button id - is rejected    *)
(* before any insert.                                                     *)
C31_NoSelfRecord ==
    [][/\ \A i \in 1..Len(permissions') :
              permissions'[i].owner_id # permissions'[i].requester_id
       /\ (/\ ret'.op \in {"cmd_request_access", "callback_request_access"}
           /\ ret'.res \in {"SelfReference", "AttributeError"})
              => permissions' = permissions]_vars

\* a registered user has named itself by handle and was turned away
C31_Witness ==
    /\ ret.op = "cmd_request_access"
    /\ ret.res = "SelfReference"
    /\ ret.a = ret.b
    /\ get_user_by_telegram_id(DB, ret.a) # NoRow

(* ================= claims on requests for approved pairs ================ *)
\* the three ways a request reaches the registry: /request_access, the
\* request_access_ button and create_permission_request called directly,
\* among the handlers that approve, deny and revoke
RequestPathsNext == PermissionsNext \/ Request

RequestPathsSpec == BotInit /\ [][RequestPathsNext]_vars

\* the rows of the pair <<o, r>> in a permissions table, in order
PairRows(table, o, r) == SelectSeq(table, LAMBDA row : row.owner_id = o /\ row.requester_id = r)

\* C34: a request for a pair whose record is 'approved' never downgrades it.
\* Whenever a step of /request_access, of the request_access_ button or of
\* create_permission_request itself is taken, every pair that check_permission
\* accepted before the step is still accepted after it, and its record is the
\* same 'approved' row.
C34_RequestKeepsApproved ==
    [][ret'.op \in {"cmd_request_access", "callback_request_access",
                    "create_permission_request"}
          => \A p \in Pairs :
                check_permission(DB, p[1], p[2])
                   => /\ check_permission([permissions |-> permissions'], p[1], p[2])
                      /\ PairRows(permissions', p[1], p[2]) = PairRows(permissions, p[1], p[2])
                      /\ \A i \in 1..Len(PairRows(permissions', p[1], p[2])) :
                            PairRows(permissions', p[1], p[2])[i].status = "approved"]_vars

\* create_permission_request was called on an approved pair and refused
C34_Witness ==
    /\ ret.op = "create_permission_request"
    /\ ret.res = FALSE
    /\ check_permission(DB, ret.a, ret.b)

(* ======================= claims on the audit log ======================= *)
\* the entries a step appended to action_logs
Appended == SubSeq(action_logs', Len(action_logs) + 1, Len(action_logs'))

\* C36: the audit log reflects actual permission changes.  A step never
\* modifies or removes an entry that was there; an entry 'permission_response'
\* is appended only by a step that changed the status of a row that existed,
\* and an entry 'permission_revoked' only by a step that deleted a row that
\* existed.
C36_AuditReflectsChanges ==
    [][/\ Len(action_logs') >= Len(action_logs)
       /\ SubSeq(action_logs', 1, Len(action_logs)) = action_logs
       /\ \A k \in 1..Len(Appended) :
             /\ Appended[k].action_type = "permission_response" =>
                   \E i \in MatchingRows(permissions, Appended[k].user_id,
                                         Appended[k].details[2]) :
                       /\ i \in DOMAIN permissions'
                       /\ permissions'[i].status = Appended[k].details[1]
                       /\ permissions'[i].status # permissions[i].status
             /\ Appended[k].action_type = "permission_revoked" =>
                   /\ MatchingRows(permissions, Appended[k].user_id,
                                   Appended[k].details[2]) # {}
                   /\ MatchingRows(permissions', Appended[k].user_id,
                                   Appended[k].details[2]) = {}]_vars

(* ====================== claims on callback data ======================== *)
\* the callback data get_code_page_<n> of the pagination buttons
PageData(n) == <<Word("get"), Word("code"), Word("page"), Num(n)>>

\* C38: validate_callback_data(data, prefix) returns an identifier only when
\* data is exactly prefix followed by a decimal number; a pagination callback
\* get_code_page_N is never taken for a code request on identity N.  Here:
\* a step of the get_code_ button handler on get_code_page_N ends as an
\* invalid request, validate_callback_data having returned None (or at the
\* registration check before it), and starts no code request.
C38_PageIsNotARequest ==
    [][\A u \in Users, n \in {0, 1, 2} :
          callback_get_code(u, PageData(n)) =>
              /\ ret'.res \in {"NotRegistered", "Invalid"}
              /\ task' = task]_vars

(* =================== claims on the rate-limit sweep ==================== *)
\* check_rate_limit called with the limits of RATE_LIMITS, as the handlers
\* call it, at readings of the clock that lie more than
\* _rate_limit_cleanup_interval apart, so that the sweep runs
SweepActions == {"check_email", "register", "get_code"}
SweepTimes == {0, 1, Seconds(rate_limit_cleanup_interval),
               Seconds(rate_limit_cleanup_interval) + 1}

SweepInit == RateInit

check_rate_limit_of(user_id, action) ==
    LET lim == RATE_LIMITS[action]
        rl == check_rate_limit(rate_limit_storage, last_cleanup, user_id, action,
                               lim[1], lim[2], now)
    IN
    /\ Stamps(rate_limit_calls, DOMAIN rate_limit_calls) < MaxChecks
    /\ SetRate(rl, user_id, action)
    /\ ret' = Ret("check_rate_limit", user_id, 0, action,
                  [allowed |-> rl.allowed, remaining |-> rl.remaining])
    /\ UNCHANGED <<dbVars, now, last_response, task, log_start, mailVars, in_flight>>

CheckRateLimitOf == \E u \in Users, action \in SweepActions : check_rate_limit_of(u, action)

\* time.time() has moved on to a later reading
ClockJump ==
    /\ \E t \in SweepTimes : t > now /\ now' = t
    /\ UNCHANGED <<dbVars, ret, last_response, botVars>>

SweepNext == CheckRateLimitOf \/ ClockJump

SweepSpec == SweepInit /\ [][SweepNext]_vars

\* check_rate_limit of a limiter whose sweep never runs: _last_cleanup is
\* always the present reading
NeverSwept(storage, user_id, action, t) ==
    check_rate_limit(storage, t, user_id, action,
                     RATE_LIMITS[action][1], RATE_LIMITS[action][2], t)

\* the storage of the never-swept limiter after the first k calls of h, the
\* calls made for (user_id, action)
RECURSIVE Replayed(_, _, _, _)
Replayed(h, k, user_id, action) ==
    IF k = 0 THEN <<>>
    ELSE NeverSwept(Replayed(h, k - 1, user_id, action), user_id, action, h[k].time).storage

\* C39: the sweep of the rate-limit storage is transparent.  A sweep drops no
\* timestamp that lies inside the window of its (subject, action), adds none,
\* and drops an entry only when no timestamp of it is left; and for every
\* (subject, action) the decisions of all calls made so far are the decisions
\* a limiter without the sweep gives to the same calls.
C39_SweepTransparent ==
    [][/\ last_cleanup' # last_cleanup =>
             LET swept == cleanup_rate_limit_storage(rate_limit_storage, now) IN
             \A u \in DOMAIN rate_limit_storage : \A a \in DOMAIN rate_limit_storage[u] :
                LET old == rate_limit_storage[u][a]
                    kept == StoredRequests(swept, u, a)
                IN /\ Newer(old, now - Seconds(RATE_LIMITS[a][2]))
                        = Newer(kept, now - Seconds(RATE_LIMITS[a][2]))
                   /\ \A i \in 1..Len(kept) : \E j \in 1..Len(old) : old[j] = kept[i]
                   /\ (u \in DOMAIN swept /\ a \in DOMAIN swept[u]) <=> kept # <<>>
       /\ \A u \in DOMAIN rate_limit_calls' : \A a \in DOMAIN rate_limit_calls'[u] :
             LET h == rate_limit_calls'[u][a] IN
             \A k \in 1..Len(h) :
                h[k].allowed = NeverSwept(Replayed(h, k - 1, u, a), u, a, h[k].time).allowed]_vars

\* the sweep ran in a call that was denied: the timestamps that fill the
\* window were in the storage when it was swept
C39_Witness ==
    /\ ret.op = "check_rate_limit"
    /\ ~ret.res.allowed
    /\ last_cleanup = now
    /\ now > Seconds(rate_limit_cleanup_interval)

(* ---------------------------------------------------------------------- *)
(* C33: no code from owner o's mailbox is delivered to requester r once   *)
(* revoke(o, r) has completed, also when the revoke is interleaved with a *)
(* get-code attempt of r that already passed its permission check: a step *)
(* in which process_get_code shows a code is never taken when the last    *)
(* completed operation on the pair is a revoke, nor when check_permission *)
(* is false of the pair.                                                  *)
C33_NoCodeAfterRevoke ==
    [][(/\ task.pc = "fetching"
        /\ task'.pc = "found"
        /\ ret'.res = "CodeShown")
       => /\ last_response[<<task.owner.telegram_id, task.requester.telegram_id>>] # "revoked"
          /\ check_permission(DB, task.owner.telegram_id, task.requester.telegram_id)]_vars

(* ===================== handlers/registration.py ======================== *)
(* A message text is a sequence of pieces: a blank, a character of a       *)
(* password, or an email address taken whole.                              *)
MaxSessions == 2

\* str.split(): the maximal runs of pieces without a blank, in order
RECURSIVE split(_)
split(text) ==
    IF text = <<>> THEN <<>>
    ELSE IF Head(text) = " " THEN split(Tail(text))
    ELSE LET n == CHOOSE i \in 1..Len(text) + 1 :
                     /\ i = Len(text) + 1 \/ text[i] = " "
                     /\ \A j \in 1..i - 1 : text[j] # " "
         IN <<SubSeq(text, 1, n - 1)>> \o split(SubSeq(text, n, Len(text)))

\* ' '.join(parts)
RECURSIVE join(_)
join(parts) ==
    IF parts = <<>> THEN <<>>
    ELSE IF Len(parts) = 1 THEN parts[1]
    ELSE parts[1] \o <<" ">> \o join(Tail(parts))

\* detect_email_provider on the addresses of the model; "" stands for None
detect_email_provider(email) ==
    CASE lower(email) = "alice@gmail.com" -> "gmail"
      [] lower(email) = "bob@yandex.ru" -> "yandex"
      [] OTHER -> ""

\* /register
cmd_register(u) ==
    LET existing_user == get_user_by_telegram_id(DB, u) IN
    /\ UNCHANGED <<dbVars, now, last_response, rateVars, task, log_start, in_flight,
                   mail_server, parser, vault>>
    /\ IF existing_user # NoRow
       THEN Reply("cmd_register", u, 0, "AlreadyRegistered") /\ UNCHANGED fsm_state
       ELSE /\ fsm_state' = [fsm_state EXCEPT ![u] = "waiting_for_email_data"]
            /\ Reply("cmd_register", u, 0, "Started")

\* what process_email_data did: how it ended, whether parser.connect()
\* returned True, and the password it had taken from the message
Registration(outcome, connected, password) ==
    [outcome |-> outcome, connected |-> connected, password |-> password]

\* a variant that stores the account whatever connect() returned
process_email_data_unverified(u, text, outcome, iv) ==
    LET parts == split(text)
        email == parts[1][1]
        password == join(Tail(parts))
        provider == detect_email_provider(email)
        c == connect(mail_server, outcome)
        encrypted_password == encrypt_password(password, now, iv)
        a == add_user(DB, u, UsernameOf[u], email, encrypted_password, provider, now)
        op == "process_email_data"
    IN
    /\ fsm_state[u] = "waiting_for_email_data"
    /\ UNCHANGED <<now, last_response, rateVars, task, log_start, in_flight, parser, vault>>
    /\ IF Len(parts) < 2
       THEN /\ ret' = Ret(op, u, 0, "", Registration("BadFormat", FALSE, <<>>))
            /\ UNCHANGED <<dbVars, mail_server, fsm_state>>
       ELSE IF provider = ""
       THEN /\ ret' = Ret(op, u, 0, "", Registration("Unsupported", FALSE, password))
            /\ UNCHANGED <<dbVars, mail_server, fsm_state>>
       ELSE /\ mail_server.sessions < MaxSessions
            /\ fsm_state' = [fsm_state EXCEPT ![u] = "none"]
            /\ mail_server' = disconnect(c.connection, c.server)
            /\ IF ~a.result
               THEN /\ ret' = Ret(op, u, 0, "", Registration("SaveFailed", c.ok, password))
                    /\ UNCHANGED dbVars
               ELSE /\ LogRoom
                    /\ SetDB(a.db)
                    /\ ret' = Ret(op, u, 0, "", Registration("Registered", c.ok, password))

\* a message received in state RegistrationStates.waiting_for_email_data.
\* When connect() returned False the handler returns without disconnect():
\* what is left of the connection is closed when the interpreter finalizes
\* the EmailParser, if and when it does (finalized).
process_email_data(u, text, outcome, iv) ==
    LET parts == split(text)
        email == parts[1][1]
        password == join(Tail(parts))
        provider == detect_email_provider(email)
        c == connect(mail_server, outcome)
        encrypted_password == encrypt_password(password, now, iv)
        a == add_user(DB, u, UsernameOf[u], email, encrypted_password, provider, now)
        op == "process_email_data"
    IN
    /\ fsm_state[u] = "waiting_for_email_data"
    /\ UNCHANGED <<now, last_response, rateVars, task, log_start, in_flight, parser, vault>>
    /\ IF Len(parts) < 2
       THEN /\ ret' = Ret(op, u, 0, "", Registration("BadFormat", FALSE, <<>>))
            /\ UNCHANGED <<dbVars, mail_server, fsm_state>>
       ELSE IF provider = ""
       THEN /\ ret' = Ret(op, u, 0, "", Registration("Unsupported", FALSE, password))
            /\ UNCHANGED <<dbVars, mail_server, fsm_state>>
       ELSE /\ mail_server.sessions < MaxSessions
            /\ fsm_state' = [fsm_state EXCEPT ![u] = "none"]
            /\ IF ~c.ok
               THEN /\ \E finalized \in BOOLEAN :
                          mail_server' = IF finalized
                                         THEN disconnect(c.connection, c.server)
                                         ELSE c.server
                    /\ ret' = Ret(op, u, 0, "", Registration("ConnectFailed", FALSE, password))
                    /\ UNCHANGED dbVars
               ELSE /\ mail_server' = disconnect(c.connection, c.server)
                    /\ IF ~a.result
                       THEN /\ ret' = Ret(op, u, 0, "", Registration("SaveFailed", TRUE, password))
                            /\ UNCHANGED dbVars
                       ELSE /\ LogRoom
                            /\ SetDB(a.db)
                            /\ ret' = Ret(op, u, 0, "", Registration("Registered", TRUE, password))

\* button unregister_confirm_<id>
process_unregister_confirm(u, data) ==
    LET confirmed == data[3]
        user == get_user_by_telegram_id(DB, u)
        op == "process_unregister_confirm"
    IN
    /\ UNCHANGED <<dbVars, now, last_response, botVars>>
    /\ IF ~confirmed.isdigit
       THEN Reply(op, u, 0, "ValueError")
       ELSE IF u # confirmed.int
       THEN Reply(op, u, confirmed.int, "Unauthorized")
       ELSE IF user = NoRow
       THEN Reply(op, u, u, "AlreadyDeleted")
       ELSE \* the notifications are sent, then db.delete_user(user_id) is called
            /\ ~HasMethod("delete_user")
            /\ Reply(op, u, u, "AttributeError")

\* /check_email
cmd_check_email(u, outcome) ==
    LET lim == RATE_LIMITS.check_email
        rl == check_rate_limit(rate_limit_storage, last_cleanup, u, "check_email",
                               lim[1], lim[2], now)
        user == get_user_by_telegram_id(DB, u)
        plain == decrypt_password(user.encrypted_password)
        c == connect(mail_server, outcome)
        op == "cmd_check_email"
    IN
    /\ RateRoom
    /\ SetRate(rl, u, "check_email")
    /\ UNCHANGED <<dbVars, now, last_response, task, log_start, in_flight, parser, vault,
                   fsm_state>>
    /\ IF ~rl.allowed THEN Reply(op, u, 0, "RateLimited") /\ UNCHANGED mail_server
       ELSE IF user = NoRow THEN Reply(op, u, 0, "NotRegistered") /\ UNCHANGED mail_server
       ELSE IF user.email = "" \/ user.email_provider = ""
       THEN Reply(op, u, 0, "IncompleteData") /\ UNCHANGED mail_server
       ELSE IF ~plain.ok THEN Reply(op, u, 0, "Error") /\ UNCHANGED mail_server
       ELSE /\ mail_server.sessions < MaxSessions
            /\ IF c.ok
               THEN /\ mail_server' = disconnect(c.connection, c.server)
                    /\ Reply(op, u, 0, "Connected")
               ELSE /\ \E finalized \in BOOLEAN :
                          mail_server' = IF finalized
                                         THEN disconnect(c.connection, c.server)
                                         ELSE c.server
                    /\ Reply(op, u, 0, "ConnectFailed")

(* ---------------------- accounts specification ------------------------- *)
\* the messages sent in the registration dialogue
RegistrationTexts ==
    {<<"alice@gmail.com", " ", "p", "w", "1">>,
     <<" ", "bob@yandex.ru", " ", "p", "w", " ", " ", "2", " ">>,
     <<"Alice@Gmail.com", " ", "q">>,
     <<"carol@example.org", " ", "p", "w">>,
     <<"bob@yandex.ru">>}

ConnectOutcomes == {"unknown_provider", "unreachable", "login_failed", "ok"}

CmdRegister == \E u \in Users : cmd_register(u)
ProcessEmailData ==
    \E u \in Users, text \in RegistrationTexts, outcome \in ConnectOutcomes, iv \in {0, 1} :
        process_email_data(u, text, outcome, iv)
ProcessUnregisterConfirm ==
    \E u \in Users, data \in IdData(<<Word("unregister"), Word("confirm")>>) :
        process_unregister_confirm(u, data)
CmdCheckEmail == \E u \in Users, outcome \in ConnectOutcomes : cmd_check_email(u, outcome)

AccountsNext ==
    CmdRegister \/ ProcessEmailData \/ ProcessUnregisterConfirm \/ CmdCheckEmail

AccountsSpec == BotInit /\ [][AccountsNext]_vars

(* ======================== claims on accounts =========================== *)
\* C32: after identity X confirms unregistration, the identity record of X is
\* gone and no permission record references X as owner or as requester, so
\* check_permission(X, r) and check_permission(o, X) are false for all o, r.
\* Here: every step in which a registered X pressed its own
\* unregister_confirm_X button ends in such a state.
C32_UnregisterRemovesAll ==
    [][\A x \in Users :
          (/\ ret'.op = "process_unregister_confirm"
           /\ ret'.a = x /\ ret'.b = x
           /\ get_user_by_telegram_id(DB, x) # NoRow)
          => /\ get_user_by_telegram_id(DB', x) = NoRow
             /\ \A i \in DOMAIN permissions' :
                   permissions'[i].owner_id # x /\ permissions'[i].requester_id # x
             /\ \A y \in Users : ~check_permission(DB', x, y) /\ ~check_permission(DB', y, x)]_vars

\* C35: an identity record is created only after a mail session was opened
\* successfully with the supplied credentials, and the password it stores is
\* the output of encrypt on the supplied application password.  A step adds a
\* row to users only as process_email_data whose connect() returned True; the
\* row's encrypted_password is a token encrypt_password gives for the password
\* of that message, decrypt_password of it yields that password, and the
\* password is held only as ciphertext under the key of the vault, not in the
\* audit entry either; the rows that were there keep their encrypted_password,
\* and every stored password decrypts.
C35_StoredAfterSessionEncrypted ==
    [][/\ \A i \in DOMAIN users :
             /\ i \in DOMAIN users'
             /\ users'[i].encrypted_password = users[i].encrypted_password
       /\ \A i \in DOMAIN users' : decrypt_password(users'[i].encrypted_password).ok
       /\ Len(users') > Len(users) =>
             /\ Len(users') = Len(users) + 1
             /\ ret'.op = "process_email_data"
             /\ ret'.res.connected
             /\ LET row == users'[Len(users')]
                    password == ret'.res.password
                IN /\ row.telegram_id = ret'.a
                   /\ \E iv \in {0, 1} :
                         row.encrypted_password = encrypt_password(password, now, iv)
                   /\ decrypt_password(row.encrypted_password)
                         = [ok |-> TRUE, password |-> password]
                   /\ row.encrypted_password.armor = "base64"
                   /\ row.encrypted_password.ciphertext.key = FernetKey
                   /\ \A k \in 1..Len(Appended) : Appended[k].details # password]_vars

\* bob was registered with a password of two words after the login succeeded
C35_Witness ==
    /\ ret.op = "process_email_data"
    /\ ret.res.outcome = "Registered"
    /\ ret.res.connected
    /\ ret.res.password = <<"p", "w", " ", "2">>
    /\ get_user_by_telegram_id(DB, ret.a) # NoRow
    /\ decrypt_password(get_user_by_telegram_id(DB, ret.a).encrypted_password).password
          = ret.res.password

\* C37: the connectivity checks made outside a code fetch (during
\* registration and in /check_email) release every mail session they open,
\* including when the connection was established but the login was rejected:
\* a step of process_email_data or of cmd_check_email leaves the mail server
\* with as many open sessions as it had.
C37_ChecksReleaseSessions ==
    [][ret'.op \in {"process_email_data", "cmd_check_email"}
          => mail_server'.sessions = mail_server.sessions]_vars
====
